---------------------------- MODULE Spec2Model ----------------------------
(***************************************************************************)
(* Montreal snow removal integration: the vehicle address resolver         *)
(* (vehicle_resolver.py), the address parser (address_parser.py) and the   *)
(* geobase fuzzy search (api/geobase.py).                                  *)
(*                                                                         *)
(* Conventions of the model                                                *)
(*  - A Python str that the code inspects character by character is a      *)
(*    sequence of characters; a character is a one-token TLA+ string       *)
(*    ("a", " ", "e_acute", ...).  Opaque tokens stay TLA+ strings.        *)
(*  - An optional value (x | None) is <<>> for None and <<x>> for x.       *)
(*  - A coordinate is an integer number of 1e-5 degrees, so that the       *)
(*    bounding box constants are exact.  Distances are kept as squares     *)
(*    (or as fractions of integers) because the code's sqrt is monotone:   *)
(*    d < k is decided as d^2 < k^2.  The metric is the planar one with    *)
(*    one grid unit per metre on both axes.                                *)
(***************************************************************************)
EXTENDS Integers, Sequences, FiniteSets, TLC

None == <<>>
Some(x) == <<x>>
IsNone(o) == o = <<>>
Val(o) == o[1]

(***************************************************************************)
(* Bounds of the model                                                     *)
(***************************************************************************)
\* catalog ids are 1..MaxId
MaxId == 12
\* number of events one behaviour handles
MaxClock == 3
\* scheduled resolution tasks not yet run
MaxPending == 1
\* size of the small catalogs the search is run on
MaxSmall == 2
\* largest offset, in grid units, of the points and segment ends the segment
\* distance is computed on
MaxOffset == 6
\* latest wall-clock reading of the datetimes, in ticks
MaxTime == 4
\* largest ETAT_DENEIG code the planifications carry
MaxCode == 11
\* length of the longest street name that is normalized
MaxLen == 4
\* number of words of the longest address that is parsed
MaxWords == 3

(***************************************************************************)
(* Characters: unicodedata.normalize("NFD"), unicodedata.category,         *)
(* str.lower, str.upper and str.isspace on the modelled alphabet.          *)
(***************************************************************************)
UpperLetters == <<"A", "D", "E", "G", "I", "N", "R", "S", "T", "U", "Z", "E_ACUTE">>
LowerLetters == <<"a", "d", "e", "g", "i", "n", "r", "s", "t", "u", "z", "e_acute">>

CombiningMarks == {"COMBINING_ACUTE", "COMBINING_CIRCUMFLEX"}
Digits == <<"0", "1", "2", "3", "4", "5", "6", "7", "8", "9">>
DigitSet == {Digits[i] : i \in 1..10}
Whitespace == {" ", "NEWLINE"}

IndexIn(c, seq) == CHOOSE i \in 1..Len(seq) : seq[i] = c
InSeq(c, seq) == \E i \in 1..Len(seq) : seq[i] = c

LowerChar(c) == IF InSeq(c, UpperLetters) THEN LowerLetters[IndexIn(c, UpperLetters)] ELSE c
UpperChar(c) == IF InSeq(c, LowerLetters) THEN UpperLetters[IndexIn(c, LowerLetters)] ELSE c

\* canonical decomposition of one character
NFDChar(c) ==
    CASE c = "e_acute" -> <<"e", "COMBINING_ACUTE">>
      [] c = "E_ACUTE" -> <<"E", "COMBINING_ACUTE">>
      [] c = "o_circ" -> <<"o", "COMBINING_CIRCUMFLEX">>
      [] OTHER -> <<c>>

RECURSIVE NFD(_)
NFD(s) == IF s = <<>> THEN <<>> ELSE NFDChar(Head(s)) \o NFD(Tail(s))

IsMn(c) == c \in CombiningMarks

Lower(s) == [i \in 1..Len(s) |-> LowerChar(s[i])]

RECURSIVE LStrip(_)
LStrip(s) == IF s # <<>> /\ Head(s) \in Whitespace THEN LStrip(Tail(s)) ELSE s

RECURSIVE RStrip(_)
RStrip(s) ==
    IF s # <<>> /\ s[Len(s)] \in Whitespace THEN RStrip(SubSeq(s, 1, Len(s) - 1)) ELSE s

Strip(s) == RStrip(LStrip(s))

\* str.split(): maximal runs of non-whitespace characters
RECURSIVE SplitFrom(_, _)
SplitFrom(s, cur) ==
    IF s = <<>> THEN (IF cur = <<>> THEN <<>> ELSE <<cur>>)
    ELSE IF Head(s) \in Whitespace
         THEN (IF cur = <<>> THEN <<>> ELSE <<cur>>) \o SplitFrom(Tail(s), <<>>)
         ELSE SplitFrom(Tail(s), Append(cur, Head(s)))

Split(s) == SplitFrom(s, <<>>)

\* " ".join(parts)
RECURSIVE JoinSpace(_)
JoinSpace(parts) ==
    IF parts = <<>> THEN <<>>
    ELSE IF Len(parts) = 1 THEN parts[1]
    ELSE parts[1] \o <<" ">> \o JoinSpace(Tail(parts))

\* str.capitalize(): first character upper-cased, the rest lower-cased
Capitalize(s) == IF s = <<>> THEN <<>> ELSE <<UpperChar(s[1])>> \o Lower(Tail(s))

StartsWith(s, prefix) ==
    /\ Len(prefix) <= Len(s)
    /\ SubSeq(s, 1, Len(prefix)) = prefix

\* the Python "sub in s" test on str
IsSubstring(sub, s) ==
    \E i \in 0..Len(s) : i + Len(sub) <= Len(s) /\ SubSeq(s, i + 1, i + Len(sub)) = sub

\* int() of a run of decimal digits
RECURSIVE DigitsToInt(_)
DigitsToInt(s) ==
    IF s = <<>> THEN 0
    ELSE 10 * DigitsToInt(SubSeq(s, 1, Len(s) - 1)) + (IndexIn(s[Len(s)], Digits) - 1)

AllDigits(s) == s # <<>> /\ \A i \in 1..Len(s) : s[i] \in DigitSet

(***************************************************************************)
(* AddressParser                                                           *)
(***************************************************************************)
STREET_TYPE_SYNONYMS ==
    << << <<"a","v","e","n","u","e">>, << <<"a","v","e">>, <<"a","v">> >> >>,
       << <<"b","o","u","l","e","v","a","r","d">>,
          << <<"b","o","u","l">>, <<"b","l","v","d">>, <<"b","d">> >> >>,
       << <<"r","u","e">>, << <<"s","t","r","e","e","t">>, <<"s","t">>, <<"r">> >> >>,
       << <<"c","h","e","m","i","n">>, << <<"c","h">> >> >>,
       << <<"p","l","a","c","e">>, << <<"p","l">> >> >>,
       << <<"c","e","r","c","l","e">>, << <<"c","i","r","c","l","e">> >> >>,
       << <<"c","r","o","i","s","s","a","n","t">>,
          << <<"c","r","e","s","c","e","n","t">>, <<"c","r","e","s">> >> >>,
       << <<"t","e","r","r","a","s","s","e">>,
          << <<"t","e","r","r","a","c","e">>, <<"t","e","r","r">> >> >>,
       << <<"a","l","l","e","e">>, << <<"a","l","l","e_acute","e">> >> >>,
       << <<"m","o","n","t","e","e">>, << <<"m","o","n","t","e_acute","e">> >> >>,
       << <<"c","o","t","e">>, << <<"c","o_circ","t","e">> >> >> >>

\* the reverse table: the keys are the main types and all their synonyms
InSynonymTable(tok) ==
    \E k \in 1..Len(STREET_TYPE_SYNONYMS) :
        \/ STREET_TYPE_SYNONYMS[k][1] = tok
        \/ InSeq(tok, STREET_TYPE_SYNONYMS[k][2])

\* a later key of the loop overwrites an earlier one; the keys are disjoint
SYNONYM_TO_TYPE(tok) ==
    LET k == CHOOSE j \in 1..Len(STREET_TYPE_SYNONYMS) :
                 /\ \/ STREET_TYPE_SYNONYMS[j][1] = tok
                    \/ InSeq(tok, STREET_TYPE_SYNONYMS[j][2])
                 /\ \A j2 \in (j + 1)..Len(STREET_TYPE_SYNONYMS) :
                        ~ (\/ STREET_TYPE_SYNONYMS[j2][1] = tok
                           \/ InSeq(tok, STREET_TYPE_SYNONYMS[j2][2]))
    IN  STREET_TYPE_SYNONYMS[k][1]

\* mutant: the whitespace is stripped before the accents are removed
normalize_street_name_StripFirst(name) ==
    IF name = <<>> THEN <<>>
    ELSE LET nfd == NFD(Strip(name))
             without_accents == SelectSeq(nfd, LAMBDA c : ~ IsMn(c))
         IN  Lower(without_accents)

normalize_street_name(name) ==
    IF name = <<>> THEN <<>>
    ELSE LET nfd == NFD(name)
             without_accents == SelectSeq(nfd, LAMBDA c : ~ IsMn(c))
         IN  Strip(Lower(without_accents))

\* re.match(r"^\s*(\d+)\s+(.+)$", original): <<>> when there is no match,
\* otherwise <<group(1), group(2)>>
RECURSIVE DigitRunLen(_)
DigitRunLen(s) == IF s # <<>> /\ Head(s) \in DigitSet THEN 1 + DigitRunLen(Tail(s)) ELSE 0

\* (.+)$ matches s to its end: the dot matches every character but the line
\* feed
MatchedByDots(s) == ~ InSeq("NEWLINE", s)

NumberRegexMatch(original) ==
    LET s == LStrip(original)
        n == DigitRunLen(s)
        afterDigits == SubSeq(s, n + 1, Len(s))
        rest == LStrip(afterDigits)
    IN  IF n >= 1 /\ Len(rest) < Len(afterDigits) /\ rest # <<>>
           /\ MatchedByDots(rest)
        THEN <<SubSeq(s, 1, n), rest>>
        ELSE <<>>

FirstTypeIndex(parts) ==
    IF \E i \in 1..Len(parts) : InSynonymTable(parts[i])
    THEN CHOOSE i \in 1..Len(parts) :
             /\ InSynonymTable(parts[i])
             /\ \A j \in 1..(i - 1) : ~ InSynonymTable(parts[j])
    ELSE 0

\* None, or Some of the parsed components
parse_address(full_address) ==
    IF full_address = <<>> \/ Strip(full_address) = <<>> THEN None
    ELSE
      LET original == Strip(full_address)
          match == NumberRegexMatch(original)
          street_number == IF match = <<>> THEN None ELSE Some(DigitsToInt(match[1]))
          remaining == IF match = <<>> THEN original ELSE match[2]
          parts == Split(normalize_street_name(remaining))
          i == FirstTypeIndex(parts)
          street_type == IF i = 0 THEN None ELSE Some(SYNONYM_TO_TYPE(parts[i]))
          street_name_parts ==
              IF i = 0 THEN parts
              ELSE SubSeq(parts, 1, i - 1) \o SubSeq(parts, i + 1, Len(parts))
          street_name == JoinSpace(street_name_parts)
      IN  IF parts = <<>> THEN None
          ELSE IF street_name = <<>> THEN None
          ELSE Some([street_number |-> street_number,
                     street_name |-> street_name,
                     street_type |-> street_type,
                     original |-> original])

(***************************************************************************)
(* GeobaseHandler: the catalog and its fuzzy search                        *)
(***************************************************************************)
\* an address-range bound of a record: None, an int or a str
NoBound == [t |-> "none"]
IntBound(n) == [t |-> "int", v |-> n]
StrBound(s) == [t |-> "str", s |-> s]

\* int(x) inside the try block: ok is FALSE when int() raises ValueError
\* or TypeError
IntOf(x) ==
    CASE x.t = "int" -> [ok |-> TRUE, v |-> x.v]
      [] x.t = "str" -> IF AllDigits(x.s) THEN [ok |-> TRUE, v |-> DigitsToInt(x.s)]
                                           ELSE [ok |-> FALSE, v |-> 0]
      [] OTHER -> [ok |-> FALSE, v |-> 0]

\* mutant: the bounds of the range are exclusive
is_in_address_range_Exclusive(street_number, debut, fin) ==
    IF debut.t = "none" \/ fin.t = "none" THEN FALSE
    ELSE LET debut_int == IntOf(debut)
             fin_int == IntOf(fin)
         IN  IF debut_int.ok /\ fin_int.ok
             THEN debut_int.v < street_number /\ street_number < fin_int.v
             ELSE FALSE

is_in_address_range(street_number, debut, fin) ==
    IF debut.t = "none" \/ fin.t = "none" THEN FALSE
    ELSE LET debut_int == IntOf(debut)
             fin_int == IntOf(fin)
         IN  IF debut_int.ok /\ fin_int.ok
             THEN debut_int.v <= street_number /\ street_number <= fin_int.v
             ELSE FALSE

\* mutant: the substring rule is tested before the prefix rule
calculate_match_score_SubstringFirst(search_name, geobase_name) ==
    IF search_name = geobase_name THEN 100
    ELSE IF geobase_name = search_name THEN 80
    ELSE IF IsSubstring(search_name, geobase_name) THEN 40
    ELSE IF StartsWith(geobase_name, search_name) THEN 60
    ELSE 0

\* mutant: the rule of the score 100 is missing, equal names reach the
\* rule of the score 80
calculate_match_score_NoExactRule(search_name, geobase_name) ==
    IF geobase_name = search_name THEN 80
    ELSE IF StartsWith(geobase_name, search_name) THEN 60
    ELSE IF IsSubstring(search_name, geobase_name) THEN 40
    ELSE 0

calculate_match_score(search_name, geobase_name) ==
    IF search_name = geobase_name THEN 100
    ELSE IF geobase_name = search_name THEN 80
    ELSE IF StartsWith(geobase_name, search_name) THEN 60
    ELSE IF IsSubstring(search_name, geobase_name) THEN 40
    ELSE 0

\* mutant: the score is compared before the in-range flag
SortKey_ScoreFirst(m) == <<0 - m.match_score, IF m.in_range THEN 0 ELSE 1, m.cote_rue_id>>

\* the key of matches.sort(): (not in_range, -match_score, cote_rue_id)
SortKey(m) == <<IF m.in_range THEN 0 ELSE 1, 0 - m.match_score, m.cote_rue_id>>

\* tuple comparison a < b
KeyLess(a, b) ==
    \/ a[1] < b[1]
    \/ a[1] = b[1] /\ a[2] < b[2]
    \/ a[1] = b[1] /\ a[2] = b[2] /\ a[3] < b[3]

\* list.sort(key=...): stable, ascending
RECURSIVE InsertSorted(_, _)
InsertSorted(m, sorted) ==
    IF sorted = <<>> THEN <<m>>
    ELSE IF KeyLess(SortKey(m), SortKey(Head(sorted)))
         THEN <<m>> \o sorted
         ELSE <<Head(sorted)>> \o InsertSorted(m, Tail(sorted))

RECURSIVE SortMatches(_)
SortMatches(ms) ==
    IF ms = <<>> THEN <<>>
    ELSE InsertSorted(ms[Len(ms)], SortMatches(SubSeq(ms, 1, Len(ms) - 1)))

SEARCH_LIMIT == 10

\* the keys of a dict in iteration order
RECURSIVE KeysInOrder(_)
KeysInOrder(S) ==
    IF S = {} THEN <<>>
    ELSE LET k == CHOOSE x \in S : \A y \in S : x <= y
         IN  <<k>> \o KeysInOrder(S \ {k})

\* the loop body of search_address for one record: <<>> when the record is
\* skipped, otherwise the one match appended
MatchOf(cote_rue_id, info, street_number, search_name_normalized) ==
    LET nom_voie == info.nom_voie
        nom_voie_normalized == normalize_street_name(nom_voie)
    IN  IF nom_voie = <<>> THEN <<>>
        ELSE IF ~ IsSubstring(search_name_normalized, nom_voie_normalized) THEN <<>>
        ELSE << [cote_rue_id |-> cote_rue_id,
                 info |-> info,
                 match_score |-> calculate_match_score(search_name_normalized,
                                                       nom_voie_normalized),
                 in_range |-> IF IsNone(street_number) THEN FALSE
                              ELSE is_in_address_range(Val(street_number),
                                                       info.debut_adresse,
                                                       info.fin_adresse)] >>

RECURSIVE CollectMatches(_, _, _, _)
CollectMatches(keys, map, street_number, search_name_normalized) ==
    IF keys = <<>> THEN <<>>
    ELSE MatchOf(Head(keys), map[Head(keys)], street_number, search_name_normalized)
         \o CollectMatches(Tail(keys), map, street_number, search_name_normalized)

Truncate(ms) == SubSeq(ms, 1, IF Len(ms) < SEARCH_LIMIT THEN Len(ms) ELSE SEARCH_LIMIT)

search_address(loaded, map, street_number, street_name) ==
    IF ~ loaded THEN <<>>
    ELSE LET search_name_normalized == normalize_street_name(street_name)
             matches == CollectMatches(KeysInOrder(DOMAIN map), map, street_number,
                                       search_name_normalized)
         IN  Truncate(SortMatches(matches))

get_street_info(loaded, map, cote_rue_id) ==
    IF ~ loaded THEN None
    ELSE IF cote_rue_id \in DOMAIN map THEN Some(map[cote_rue_id]) ELSE None

(***************************************************************************)
(* The catalogs the model draws from: the record of id i, for i in         *)
(* 1..MaxId.  Ids 5 and 9 are the two records of the documented search     *)
(* example.                                                                *)
(***************************************************************************)
S_Test == <<"T", "e", "s", "t">>
S_Testing == <<"T", "e", "s", "t", "i", "n", "g">>
S_Atest == <<"A", "t", "e", "s", "t">>
S_Tzed == <<"T", "z", "e", "d">>
S_TestAccent == <<"T", "e_acute", "s", "t">>
S_TESTsp == <<"T", "E", "S", "T", " ">>
S_rue == <<"r", "u", "e">>
S_100 == <<"1", "0", "0">>
S_200 == <<"2", "0", "0">>
S_abc == <<"a", "b", "c">>

SampleNames == <<S_Atest, S_Testing, S_Tzed, S_TestAccent, S_Test, S_TESTsp, <<>> >>

SampleRanges ==
    << <<IntBound(1), IntBound(50)>>,
       <<StrBound(S_100), StrBound(S_200)>>,
       <<StrBound(S_abc), IntBound(200)>>,
       <<IntBound(100), NoBound>>,
       <<IntBound(100), IntBound(200)>>,
       <<IntBound(150), IntBound(150)>>,
       <<IntBound(100), StrBound(<<"x">>)>>,
       <<NoBound, NoBound>> >>

SampleInfo(i) ==
    [nom_voie |-> SampleNames[((i - 1) % 7) + 1],
     type_voie |-> IF i % 3 = 0 THEN <<>> ELSE S_rue,
     debut_adresse |-> SampleRanges[((i - 1) % 8) + 1][1],
     fin_adresse |-> SampleRanges[((i - 1) % 8) + 1][2],
     cote |-> IF i % 2 = 1 THEN "Impair" ELSE "Pair"]

CatalogOf(ids) == [i \in ids |-> SampleInfo(i)]

QueryNames == {S_Test, <<>>, <<"T", "E_ACUTE", "S", "T", " ">>, <<"T">>, <<"Z", "z">>}
QueryNumbers == {None, Some(30), Some(150), Some(200)}

\* the catalogs the search is run on: the small ones and the nearly complete ones
CatalogIdSets ==
    {S \in SUBSET (1..MaxId) : Cardinality(S) <= MaxSmall \/ Cardinality(S) >= MaxId - 1}

(***************************************************************************)
(* VehicleAddressResolver: geometry                                        *)
(***************************************************************************)
MIN_LAT == 4540000
MAX_LAT == 4570000
MIN_LON == -7398000
MAX_LON == -7347000

MIN_DISTANCE_THRESHOLD == 5
NEAREST_THRESHOLD == 100

\* mutant: the southern bound is not checked
is_in_montreal_NoSouthBound(latitude, longitude) ==
    /\ latitude <= MAX_LAT
    /\ MIN_LON <= longitude /\ longitude <= MAX_LON

is_in_montreal(latitude, longitude) ==
    /\ MIN_LAT <= latitude /\ latitude <= MAX_LAT
    /\ MIN_LON <= longitude /\ longitude <= MAX_LON

\* the square of the distance _haversine_distance returns
haversine_distance_sq(lat1, lon1, lat2, lon2) ==
    (lat2 - lat1) * (lat2 - lat1) + (lon2 - lon1) * (lon2 - lon1)

\* a distance is [inf, num, den]: infinite, or the square root of num / den
InfDist == [inf |-> TRUE, num |-> 0, den |-> 1]
Dist(num, den) == [inf |-> FALSE, num |-> num, den |-> den]

\* a < b on distances
DistLess(a, b) ==
    IF a.inf THEN FALSE
    ELSE IF b.inf THEN TRUE
    ELSE a.num * b.den < b.num * a.den

\* a < k for a number of metres k
DistBelow(a, k) == ~ a.inf /\ a.num < k * k * a.den

Max(a, b) == IF a > b THEN a ELSE b
Min(a, b) == IF a < b THEN a ELSE b

\* mutant: the projection parameter is not clamped to [0, 1]
point_to_segment_distance_Unclamped(point_lat, point_lon, seg_start_lat, seg_start_lon, seg_end_lat, seg_end_lon) ==
    LET px == point_lon - seg_start_lon
        py == point_lat - seg_start_lat
        ex == seg_end_lon - seg_start_lon
        ey == seg_end_lat - seg_start_lat
        seg_length_sq == ex * ex + ey * ey
        dot == px * ex + py * ey
    IN  IF seg_length_sq = 0
        THEN [d |-> Dist(px * px + py * py, 1), tn |-> 0, td |-> 1]
        ELSE [d |-> Dist((px * px + py * py) * seg_length_sq - dot * dot, seg_length_sq),
              tn |-> dot, td |-> seg_length_sq]

\* [d, tn, td]: the distance and the position t = tn / td along the segment
point_to_segment_distance(point_lat, point_lon, seg_start_lat, seg_start_lon, seg_end_lat, seg_end_lon) ==
    LET px == point_lon - seg_start_lon
        py == point_lat - seg_start_lat
        ex == seg_end_lon - seg_start_lon
        ey == seg_end_lat - seg_start_lat
        seg_length_sq == ex * ex + ey * ey
        dot == px * ex + py * ey
        tn == Max(0, Min(seg_length_sq, dot))
    IN  IF seg_length_sq = 0
        THEN [d |-> Dist(px * px + py * py, 1), tn |-> 0, td |-> 1]
        ELSE \* |p - t e|^2 with t = tn / seg_length_sq
             [d |-> Dist((px * px + py * py) * seg_length_sq - 2 * tn * dot + tn * tn,
                         seg_length_sq),
              tn |-> tn, td |-> seg_length_sq]

\* coordinates are <<lon, lat>> pairs
RECURSIVE MinSegmentDistance(_, _, _, _, _)
MinSegmentDistance(lat, lon, coordinates, i, min_distance) ==
    IF i > Len(coordinates) - 1 THEN min_distance
    ELSE LET seg_start == coordinates[i]
             seg_end == coordinates[i + 1]
             r == point_to_segment_distance(lat, lon, seg_start[2], seg_start[1],
                                            seg_end[2], seg_end[1])
         IN  MinSegmentDistance(lat, lon, coordinates, i + 1,
                                IF DistLess(r.d, min_distance) THEN r.d ELSE min_distance)

\* the distance component of the result
point_to_linestring_distance(lat, lon, coordinates) ==
    LET total_length_is_zero ==
            \A i \in 1..(Len(coordinates) - 1) :
                haversine_distance_sq(coordinates[i][2], coordinates[i][1],
                                      coordinates[i + 1][2], coordinates[i + 1][1]) = 0
    IN  IF total_length_is_zero THEN InfDist
        ELSE MinSegmentDistance(lat, lon, coordinates, 1, InfDist)

\* str(n) for n >= 0
RECURSIVE IntToDigits(_)
IntToDigits(n) ==
    IF n < 10 THEN <<Digits[n + 1]>> ELSE IntToDigits(n \div 10) \o <<Digits[(n % 10) + 1]>>

S_Unknown == <<"U", "n", "k", "n", "o", "w", "n">>
S_Street_ == <<"S", "t", "r", "e", "e", "t", " ">>

format_street_name(street_info) ==
    LET parts == (IF street_info.type_voie # <<>>
                  THEN <<Capitalize(street_info.type_voie)>> ELSE <<>>)
                 \o (IF street_info.nom_voie # <<>> THEN <<street_info.nom_voie>> ELSE <<>>)
    IN  IF parts # <<>> THEN JoinSpace(parts) ELSE S_Unknown

\* the loop of _find_nearest_street: best is None or Some([cote_rue_id, distance])
RECURSIVE NearestLoop(_, _, _, _, _)
NearestLoop(keys, geometry_map, latitude, longitude, best) ==
    IF keys = <<>> THEN best
    ELSE LET cote_rue_id == Head(keys)
             coordinates == geometry_map[cote_rue_id]
             d == point_to_linestring_distance(latitude, longitude, coordinates)
             best_distance == IF IsNone(best) THEN InfDist ELSE Val(best).distance
         IN  IF Len(coordinates) < 2
             THEN NearestLoop(Tail(keys), geometry_map, latitude, longitude, best)
             ELSE NearestLoop(Tail(keys), geometry_map, latitude, longitude,
                              IF DistLess(d, best_distance)
                              THEN Some([cote_rue_id |-> cote_rue_id, distance |-> d])
                              ELSE best)

\* None, or Some([cote_rue_id, street_name, distance, street_side])
find_nearest_street(geometry_map, gb_loaded, gb_map, latitude, longitude) ==
    LET best_match == NearestLoop(KeysInOrder(DOMAIN geometry_map), geometry_map,
                                  latitude, longitude, None)
    IN  IF ~ IsNone(best_match) /\ DistBelow(Val(best_match).distance, NEAREST_THRESHOLD)
        THEN LET id == Val(best_match).cote_rue_id
                 street_info == get_street_info(gb_loaded, gb_map, id)
             IN  Some([cote_rue_id |-> id,
                       street_name |-> IF ~ IsNone(street_info)
                                       THEN format_street_name(Val(street_info))
                                       ELSE S_Street_ \o IntToDigits(id),
                       distance |-> Val(best_match).distance,
                       street_side |-> IF ~ IsNone(street_info)
                                       THEN Some(Val(street_info).cote) ELSE None])
        ELSE None

(***************************************************************************)
(* The geometry the model loads: polylines near the south-west corner of   *)
(* the bounding box.  At(dlat, dlon) is the point dlat, dlon grid units    *)
(* from that corner.                                                       *)
(***************************************************************************)
At(dlat, dlon) == [lat |-> MIN_LAT + dlat, lon |-> MIN_LON + dlon]
Vertex(dlat, dlon) == <<MIN_LON + dlon, MIN_LAT + dlat>>

SampleGeometry ==
    (2 :> <<Vertex(300, 0), Vertex(300, 8)>>) @@       \* no catalog record
    (3 :> <<Vertex(10, 4)>>) @@                        \* a single vertex
    (4 :> <<Vertex(12, 4), Vertex(12, 4)>>) @@         \* zero length
    (5 :> <<Vertex(10, 0), Vertex(10, 8)>>) @@
    (9 :> <<Vertex(18, 0), Vertex(18, 4), Vertex(18, 8)>>)

ResolverCatalogIds == {4, 5, 9}

\* on street 5
G_OnStreet5 == At(10, 4)
\* 2 m from G_OnStreet5
G_Near == At(12, 4)
\* exactly 5 m from G_OnStreet5
G_Five == At(13, 8)
\* 4 m from G_Near, 6 m from G_OnStreet5, nearest to street 9
G_Drift == At(16, 4)
\* in the box, more than 100 m from every polyline
G_Far == At(150, 150)
\* on the border of the box
G_Border == At(0, 4)
\* outside the box, 3 m from G_Border
G_Out == At(-3, 4)

GpsSamples == {G_OnStreet5, G_Near, G_Five, G_Drift, G_Far, G_Border, G_Out}

(***************************************************************************)
(* Location updates: the State objects of the source entity                *)
(***************************************************************************)
\* mutant: the generic attribute is looked at first
KNOWN_ADDRESS_ATTRIBUTES_AddressFirst == <<"address", "street", "formatted_address">>

KNOWN_ADDRESS_ATTRIBUTES == <<"street", "formatted_address", "address">>

\* an attribute value: a str, or a value of another type
StrVal(s) == [t |-> "str", s |-> s]
OtherVal == [t |-> "other", s |-> <<>>]

NoAttributes ==
    [street |-> None, formatted_address |-> None, address |-> None,
     latitude |-> None, longitude |-> None]

StateOf(state, attributes) == [state |-> state, attributes |-> attributes]

WithGps(attributes, g) ==
    [attributes EXCEPT !.latitude = Some(g.lat), !.longitude = Some(g.lon)]

S_150Test == <<"1", "5", "0", " ", "T", "e", "s", "t">>
S_Zed == <<"Z", "e", "d">>

AddressStates ==
    { StateOf("home", WithGps([NoAttributes EXCEPT !.street = Some(StrVal(S_150Test))],
                              G_Drift)),
      StateOf("home", WithGps([NoAttributes EXCEPT !.street = Some(StrVal(S_rue))],
                              G_OnStreet5)),
      StateOf("home", WithGps([NoAttributes EXCEPT !.street = Some(StrVal(S_Zed))],
                              G_OnStreet5)) }

GpsStates == { StateOf("home", WithGps(NoAttributes, g)) : g \in GpsSamples }

\* no address attribute, a latitude without a longitude
LatitudeOnly == [NoAttributes EXCEPT !.latitude = Some(G_OnStreet5.lat)]

SourceStates ==
    { StateOf("unavailable", NoAttributes), StateOf("unknown", NoAttributes),
      StateOf("home", LatitudeOnly) }
    \cup AddressStates \cup GpsStates

(***************************************************************************)
(* State                                                                   *)
(***************************************************************************)
VARIABLES
    current_cote_rue_id,   \* VehicleAddressResolver._current_cote_rue_id
    current_street_name,   \* ._current_street_name
    current_street_side,   \* ._current_street_side
    last_resolution,       \* ._last_resolution
    resolution_method,     \* ._resolution_method
    source_available,      \* ._source_available
    last_latitude,         \* ._last_latitude
    last_longitude,        \* ._last_longitude
    subscribed,            \* ._unsub_state_change is set
    gb_loaded,             \* GeobaseHandler._loaded
    gb_mapping,            \* GeobaseHandler._mapping
    geojson,               \* the GeoJSONHandler: "none", "not_loaded" or "loaded"
    tasks,                 \* resolutions scheduled with async_create_task, oldest first
    clock,                 \* datetime.now(), one tick per handled event
    handled,               \* the event handled last
    notifs,                \* the calls of on_street_change made while handling it
    nearest_calls,         \* the calls of _find_nearest_street made while handling it
    search_in,             \* the last search_address call: the catalog and the arguments
    search_out,            \* and its result
    call_in,               \* the call of a function under check: its name and arguments
    call_out,              \* and what it returned, once it has run
    delivered,             \* the event delivered last to _async_on_state_change
    tracked_ids,           \* SnowRemovalCoordinator.tracked_cote_rue_ids
    stored_street_data     \* SnowRemovalCoordinator._street_data

resolverVars ==
    <<current_cote_rue_id, current_street_name, current_street_side, last_resolution,
      resolution_method, source_available, last_latitude, last_longitude>>
geobaseVars == <<gb_loaded, gb_mapping>>
searchVars == <<search_in, search_out>>
callVars == <<call_in, call_out>>
coordinatorVars == <<tracked_ids, stored_street_data>>
vars ==
    <<current_cote_rue_id, current_street_name, current_street_side, last_resolution,
      resolution_method, source_available, last_latitude, last_longitude, subscribed,
      gb_loaded, gb_mapping, geojson, tasks, clock, handled, notifs, nearest_calls,
      search_in, search_out, call_in, call_out, delivered, tracked_ids,
      stored_street_data>>

geometry_map == IF geojson = "loaded" THEN SampleGeometry ELSE << >>

\* no function is under check
NoCall == [fn |-> "none"]
\* the function under check has not run yet; once it has, <<r>> for the result r
NotReturned == <<>>
Result(r) == <<r>>

NoEvent == [kind |-> "none", state |-> StateOf("", NoAttributes)]
Removed == [kind |-> "removed", state |-> StateOf("", NoAttributes)]
Update(st) == [kind |-> "update", state |-> st]

(***************************************************************************)
(* VehicleAddressResolver: the event handling                              *)
(***************************************************************************)
\* mutant: the callback is skipped when the new id is None
StreetChangeCalls_OnlyWhenResolved(old_id, cote_rue_id) ==
    IF old_id # cote_rue_id /\ ~ IsNone(cote_rue_id)
    THEN << <<old_id, cote_rue_id>> >> ELSE <<>>

\* the calls of on_street_change that _update_resolution makes
StreetChangeCalls(old_id, cote_rue_id) ==
    IF old_id # cote_rue_id THEN << <<old_id, cote_rue_id>> >> ELSE <<>>

\* mutant: the timestamp and the method are recorded only when the id changes
update_resolution_StampOnChange(cote_rue_id, street_name, method, street_side) ==
    /\ current_cote_rue_id' = cote_rue_id
    /\ current_street_name' = street_name
    /\ current_street_side' = street_side
    /\ IF current_cote_rue_id # cote_rue_id
       THEN last_resolution' = Some(clock + 1) /\ resolution_method' = Some(method)
       ELSE UNCHANGED <<last_resolution, resolution_method>>
    /\ notifs' = StreetChangeCalls(current_cote_rue_id, cote_rue_id)

\* mutant: the side is kept when none is given
update_resolution_KeepsSide(cote_rue_id, street_name, method, street_side) ==
    /\ current_cote_rue_id' = cote_rue_id
    /\ current_street_name' = street_name
    /\ current_street_side' = IF IsNone(street_side) THEN current_street_side
                              ELSE street_side
    /\ last_resolution' = Some(clock + 1)
    /\ resolution_method' = Some(method)
    /\ notifs' = StreetChangeCalls(current_cote_rue_id, cote_rue_id)

update_resolution(cote_rue_id, street_name, method, street_side) ==
    /\ current_cote_rue_id' = cote_rue_id
    /\ current_street_name' = street_name
    /\ current_street_side' = street_side
    /\ last_resolution' = Some(clock + 1)
    /\ resolution_method' = Some(method)
    /\ notifs' = StreetChangeCalls(current_cote_rue_id, cote_rue_id)

RECURSIVE ExtractFrom(_, _)
ExtractFrom(names, attributes) ==
    IF names = <<>> THEN None
    ELSE LET value == attributes[Head(names)]
         IN  IF ~ IsNone(value) /\ Val(value).t = "str" /\ Val(value).s # <<>>
                /\ Strip(Val(value).s) # <<>>
             THEN Some(Strip(Val(value).s))
             ELSE ExtractFrom(Tail(names), attributes)

extract_address_from_attributes(attributes) ==
    ExtractFrom(KNOWN_ADDRESS_ATTRIBUTES, attributes)

\* mutant: the last match is taken instead of the first
BestMatch_Last(matches) == matches[Len(matches)]

BestMatch(matches) == matches[1]

\* the tail of _async_resolve_from_address, once the address is parsed and
\* the catalog searched
ResolveFromMatches(parsed, matches) ==
    /\ nearest_calls' = 0
    /\ UNCHANGED <<last_latitude, last_longitude>>
    /\ IF IsNone(parsed) \/ Val(parsed).street_name = <<>>
       THEN update_resolution(None, None, "address_attribute", None)
       ELSE IF matches = <<>>
       THEN update_resolution(None, None, "address_attribute", None)
       ELSE update_resolution(Some(BestMatch(matches).cote_rue_id),
                              Some(format_street_name(BestMatch(matches).info)),
                              "address_attribute", None)

async_resolve_from_address(address) ==
    \E parsed \in {parse_address(address)} :
        \E matches \in {IF IsNone(parsed) THEN <<>>
                        ELSE search_address(gb_loaded, gb_mapping,
                                            Val(parsed).street_number,
                                            Val(parsed).street_name)} :
            ResolveFromMatches(parsed, matches)

\* mutant: the comparison with the threshold is inverted
BelowMinDistance_Inverted(distance_sq) ==
    distance_sq > MIN_DISTANCE_THRESHOLD * MIN_DISTANCE_THRESHOLD

\* distance < MIN_DISTANCE_THRESHOLD, on the square of the distance
BelowMinDistance(distance_sq) ==
    distance_sq < MIN_DISTANCE_THRESHOLD * MIN_DISTANCE_THRESHOLD

async_resolve_from_gps(latitude, longitude) ==
    IF ~ is_in_montreal(latitude, longitude)
    THEN /\ update_resolution(None, None, "gps", None)
         /\ nearest_calls' = 0
         /\ UNCHANGED <<last_latitude, last_longitude>>
    ELSE IF /\ ~ IsNone(last_latitude) /\ ~ IsNone(last_longitude)
            /\ BelowMinDistance(haversine_distance_sq(Val(last_latitude),
                                                      Val(last_longitude),
                                                      latitude, longitude))
    THEN /\ notifs' = <<>>
         /\ nearest_calls' = 0
         /\ UNCHANGED <<current_cote_rue_id, current_street_name, current_street_side,
                        last_resolution, resolution_method, last_latitude,
                        last_longitude>>
    ELSE /\ last_latitude' = Some(latitude)
         /\ last_longitude' = Some(longitude)
         /\ IF geojson # "loaded"
            THEN /\ update_resolution(None, None, "gps", None)
                 /\ nearest_calls' = 0
            ELSE \E nearest \in {find_nearest_street(geometry_map, gb_loaded, gb_mapping,
                                                       latitude, longitude)} :
                     /\ nearest_calls' = 1
                     /\ IF ~ IsNone(nearest)
                        THEN update_resolution(Some(Val(nearest).cote_rue_id),
                                               Some(Val(nearest).street_name), "gps",
                                               Val(nearest).street_side)
                        ELSE update_resolution(None, None, "gps", None)

\* mutant: an unavailable source also drops the resolved street
SourceUnavailable_ClearsStreet ==
    /\ source_available' = FALSE
    /\ notifs' = <<>>
    /\ nearest_calls' = 0
    /\ current_cote_rue_id' = None
    /\ current_street_name' = None
    /\ current_street_side' = None
    /\ UNCHANGED <<last_resolution, resolution_method, last_latitude, last_longitude>>

\* the branch of an unavailable or unknown source
SourceUnavailable ==
    /\ source_available' = FALSE
    /\ notifs' = <<>>
    /\ nearest_calls' = 0
    /\ UNCHANGED <<current_cote_rue_id, current_street_name, current_street_side,
                   last_resolution, resolution_method, last_latitude, last_longitude>>

\* mutant: an update without a location drops the resolved street
NoLocation_ClearsStreet ==
    /\ update_resolution(None, None, "gps", None)
    /\ nearest_calls' = 0
    /\ UNCHANGED <<last_latitude, last_longitude>>

\* the end of _async_resolve_from_state: neither an address nor both
\* coordinates, only the warning is logged
NoLocation ==
    /\ notifs' = <<>>
    /\ nearest_calls' = 0
    /\ UNCHANGED <<current_cote_rue_id, current_street_name, current_street_side,
                   last_resolution, resolution_method, last_latitude, last_longitude>>

async_resolve_from_state(state) ==
    /\ handled' = Update(state)
    /\ clock' = clock + 1
    /\ IF state.state \in {"unavailable", "unknown"}
       THEN SourceUnavailable
       ELSE LET attributes == state.attributes
            IN  \E address \in {extract_address_from_attributes(attributes)} :
                /\ source_available' = TRUE
                /\ IF ~ IsNone(address)
                   THEN async_resolve_from_address(Val(address))
                   ELSE IF ~ IsNone(attributes.latitude) /\ ~ IsNone(attributes.longitude)
                   THEN async_resolve_from_gps(Val(attributes.latitude),
                                               Val(attributes.longitude))
                   ELSE NoLocation

\* async_start: the initial resolution, when the source has a state, then the
\* subscription
async_start ==
    /\ ~ subscribed
    /\ subscribed' = TRUE
    /\ \/ /\ clock < MaxClock
          /\ \E state \in SourceStates : async_resolve_from_state(state)
       \/ UNCHANGED <<resolverVars, clock, handled, notifs, nearest_calls>>
    /\ UNCHANGED <<geobaseVars, geojson, tasks, searchVars, callVars, delivered, coordinatorVars>>

\* _async_on_state_change with new_state None
StateRemoved ==
    /\ subscribed
    /\ clock + Len(tasks) < MaxClock
    /\ source_available' = FALSE
    /\ delivered' = "removed"
    /\ handled' = Removed
    /\ clock' = clock + 1
    /\ notifs' = <<>>
    /\ nearest_calls' = 0
    /\ UNCHANGED <<current_cote_rue_id, current_street_name, current_street_side,
                   last_resolution, resolution_method, last_latitude, last_longitude,
                   subscribed, geobaseVars, geojson, tasks, searchVars, callVars,
                   coordinatorVars>>

\* _async_on_state_change with a new state: the resolution is scheduled
StateChanged ==
    /\ subscribed
    /\ Len(tasks) < MaxPending
    /\ clock + Len(tasks) < MaxClock
    /\ \E state \in SourceStates : tasks' = Append(tasks, state)
    /\ delivered' = "update"
    /\ UNCHANGED <<resolverVars, subscribed, geobaseVars, geojson, clock, handled,
                   notifs, nearest_calls, searchVars, callVars, coordinatorVars>>

\* the event loop runs the oldest scheduled resolution to completion
RunTask ==
    /\ tasks # <<>>
    /\ async_resolve_from_state(Head(tasks))
    /\ tasks' = Tail(tasks)
    /\ UNCHANGED <<subscribed, geobaseVars, geojson, searchVars, callVars, delivered,
                   coordinatorVars>>

\* GeoJSONHandler.async_load / async_update completes
GeoJSONLoaded ==
    /\ geojson = "not_loaded"
    /\ geojson' = "loaded"
    /\ UNCHANGED <<resolverVars, subscribed, geobaseVars, tasks, clock, handled, notifs,
                   nearest_calls, searchVars, callVars, delivered, coordinatorVars>>


(***************************************************************************)
(* The catalog search on its own: the catalog is loaded, then searched     *)
(***************************************************************************)
\* async_setup_entry: the mapping is fetched and the handler marked loaded
LoadGeobase ==
    /\ ~ gb_loaded
    /\ \E ids \in CatalogIdSets : gb_mapping' = CatalogOf(ids)
    /\ gb_loaded' = TRUE
    /\ UNCHANGED <<resolverVars, subscribed, geojson, tasks, clock, handled, notifs,
                   nearest_calls, searchVars, callVars, delivered, coordinatorVars>>

SearchAddress ==
    /\ \E street_number \in QueryNumbers, street_name \in QueryNames :
           /\ search_in' = Some([loaded |-> gb_loaded, mapping |-> gb_mapping,
                                 street_number |-> street_number,
                                 street_name |-> street_name])
           /\ search_out' = search_address(gb_loaded, gb_mapping, street_number,
                                           street_name)
    /\ UNCHANGED <<resolverVars, subscribed, geobaseVars, geojson, tasks, clock, handled,
                   notifs, nearest_calls, callVars, delivered, coordinatorVars>>

SearchInit ==
    /\ current_cote_rue_id = None
    /\ current_street_name = None
    /\ current_street_side = None
    /\ last_resolution = None
    /\ resolution_method = None
    /\ source_available = FALSE
    /\ last_latitude = None
    /\ last_longitude = None
    /\ subscribed = FALSE
    /\ gb_loaded = FALSE
    /\ gb_mapping = << >>
    /\ geojson = "none"
    /\ tasks = <<>>
    /\ clock = 0
    /\ handled = NoEvent
    /\ notifs = <<>>
    /\ nearest_calls = 0
    /\ search_in = None
    /\ search_out = <<>>
    /\ call_in = NoCall
    /\ call_out = NotReturned
    /\ delivered = "none"
    /\ tracked_ids = {}
    /\ stored_street_data = << >>

SearchNext ==
    \/ LoadGeobase
    \/ SearchAddress

SearchSpec == SearchInit /\ [][SearchNext]_vars

(***************************************************************************)
(* Vocabulary of the properties                                            *)
(***************************************************************************)
\* the step handles an event
Handling == clock' = clock + 1

SourceDown(h) ==
    \/ h.kind = "removed"
    \/ h.kind = "update" /\ h.state.state \in {"unavailable", "unknown"}
AvailableUpdate(h) == h.kind = "update" /\ h.state.state \notin {"unavailable", "unknown"}
HasAddress(h) == ~ IsNone(extract_address_from_attributes(h.state.attributes))
HasCoordinates(h) ==
    ~ IsNone(h.state.attributes.latitude) /\ ~ IsNone(h.state.attributes.longitude)
LatOf(h) == Val(h.state.attributes.latitude)
LonOf(h) == Val(h.state.attributes.longitude)
AddressUpdate(h) == AvailableUpdate(h) /\ HasAddress(h)
GpsUpdate(h) == AvailableUpdate(h) /\ ~ HasAddress(h) /\ HasCoordinates(h)
InBox(h) ==
    /\ 4540000 <= LatOf(h) /\ LatOf(h) <= 4570000
    /\ -7398000 <= LonOf(h) /\ LonOf(h) <= -7347000
\* the square of the distance between the coordinates of two updates
DistanceSq(h1, h2) ==
    (LatOf(h1) - LatOf(h2)) * (LatOf(h1) - LatOf(h2))
    + (LonOf(h1) - LonOf(h2)) * (LonOf(h1) - LonOf(h2))
HasAnchor == ~ IsNone(last_latitude) /\ ~ IsNone(last_longitude)
\* the square of the distance from the debounce coordinate to an update
AnchorDistanceSq(h) ==
    (LatOf(h) - Val(last_latitude)) * (LatOf(h) - Val(last_latitude))
    + (LonOf(h) - Val(last_longitude)) * (LonOf(h) - Val(last_longitude))
\* the update is suppressed by the debounce
Suppressed(h) == GpsUpdate(h) /\ InBox(h) /\ HasAnchor /\ AnchorDistanceSq(h) < 25

(***************************************************************************)
(* C1: while an event is handled the change notification is called at most *)
(* once, it is called exactly when the resolved id after the event differs *)
(* from the id before it, and its arguments are (old id, new id).          *)
(***************************************************************************)
C1_NotifyExactlyOnChange ==
    [][Handling =>
          /\ Len(notifs') <= 1
          /\ (notifs' # <<>>) <=> (current_cote_rue_id' # current_cote_rue_id)
          /\ notifs' # <<>> => notifs'[1] = <<current_cote_rue_id, current_cote_rue_id'>>]_vars

\* an event took the resolver from a resolved street to no street, and the
\* notification was called with (id, None)
C1_Witness ==
    /\ handled.kind = "update"
    /\ IsNone(current_cote_rue_id)
    /\ notifs = << <<Some(5), None>> >>

(***************************************************************************)
(* C2 as stated: of two successive GPS updates inside the box that are at  *)
(* most 5 m apart, the second runs no nearest-street computation and       *)
(* leaves the resolved id as it was.                                       *)
(***************************************************************************)
C2_Original ==
    [][(/\ Handling
        /\ GpsUpdate(handled) /\ InBox(handled)
        /\ GpsUpdate(handled') /\ InBox(handled')
        /\ DistanceSq(handled, handled') <= 25)
       => (nearest_calls' = 0 /\ current_cote_rue_id' = current_cote_rue_id)]_vars

(***************************************************************************)
(* C2 amended: a GPS update inside the box that is strictly less than 5 m  *)
(* from the debounce coordinate (the coordinate of the last in-box GPS     *)
(* update that was not itself suppressed) runs no nearest-street           *)
(* computation and leaves the resolved id and the debounce coordinate as   *)
(* they were.                                                              *)
(***************************************************************************)
C2_DebounceFromAnchor ==
    [][(Handling /\ Suppressed(handled'))
       => /\ nearest_calls' = 0
          /\ current_cote_rue_id' = current_cote_rue_id
          /\ UNCHANGED <<last_latitude, last_longitude>>]_vars

\* a GPS update was suppressed: a street is resolved, the geometry is loaded
\* and the debounce coordinate is not the coordinate of the update
C2_Witness ==
    /\ GpsUpdate(handled) /\ InBox(handled)
    /\ geojson = "loaded"
    /\ nearest_calls = 0
    /\ ~ IsNone(current_cote_rue_id)
    /\ HasAnchor
    /\ <<Val(last_latitude), Val(last_longitude)>> # <<LatOf(handled), LonOf(handled)>>
    /\ AnchorDistanceSq(handled) < 25

(***************************************************************************)
(* C3: an update that reports the source unavailable or unknown, or the    *)
(* removal of the source, only clears the availability flag: id, name,     *)
(* side, timestamp, method and debounce coordinate keep their values and   *)
(* no notification is made.                                                *)
(***************************************************************************)
C3_UnavailableOnlyClearsFlag ==
    [][(Handling /\ SourceDown(handled'))
       => /\ source_available' = FALSE
          /\ notifs' = <<>>
          /\ UNCHANGED <<current_cote_rue_id, current_street_name, current_street_side,
                         last_resolution, resolution_method, last_latitude,
                         last_longitude>>]_vars

\* an unavailable update was handled while a street was resolved from GPS
C3_Witness ==
    /\ handled.kind = "update" /\ handled.state.state = "unavailable"
    /\ ~ source_available
    /\ ~ IsNone(current_cote_rue_id)
    /\ ~ IsNone(current_street_side)
    /\ HasAnchor

(***************************************************************************)
(* C4: an update whose address fails to parse, or matches nothing in the   *)
(* catalog, and that also carries coordinates is resolved by the GPS path: *)
(* the method is gps.                                                      *)
(***************************************************************************)
AddressFails(h) ==
    LET parsed == parse_address(Val(extract_address_from_attributes(h.state.attributes)))
    IN  \/ IsNone(parsed)
        \/ search_address(gb_loaded, gb_mapping, Val(parsed).street_number,
                          Val(parsed).street_name) = <<>>

C4_AddressFailureFallsThroughToGps ==
    (AddressUpdate(handled) /\ HasCoordinates(handled) /\ AddressFails(handled))
    => resolution_method = Some("gps")

(***************************************************************************)
(* C5: a GPS update outside the bounding box leaves no resolved id and the *)
(* method gps, and runs no nearest-street computation, whatever the state  *)
(* and the debounce coordinate were.                                       *)
(***************************************************************************)
C5_OutOfBoundsUnresolved ==
    [][(Handling /\ GpsUpdate(handled') /\ ~ InBox(handled'))
       => /\ IsNone(current_cote_rue_id')
          /\ resolution_method' = Some("gps")
          /\ nearest_calls' = 0
          /\ UNCHANGED <<last_latitude, last_longitude>>]_vars

\* an update outside the box was handled while street 5 was resolved and the
\* debounce coordinate was the border point 3 m away
C5_Witness ==
    /\ GpsUpdate(handled) /\ ~ InBox(handled)
    /\ last_latitude = Some(G_Border.lat) /\ last_longitude = Some(G_Border.lon)
    /\ AnchorDistanceSq(handled) < 25
    /\ notifs = << <<Some(5), None>> >>

(***************************************************************************)
(* C6: an available update with a usable address is resolved from the      *)
(* address alone: the method is address_attribute, the debounce coordinate *)
(* is untouched, no nearest-street computation runs, and when the catalog  *)
(* search on the parsed number and name returns matches the resolved id is *)
(* the id of the first one.                                                *)
(***************************************************************************)
C6_AddressOnly ==
    [][(Handling /\ AddressUpdate(handled'))
       => LET parsed == parse_address(
                           Val(extract_address_from_attributes(handled'.state.attributes)))
              found == IF IsNone(parsed) THEN <<>>
                       ELSE search_address(gb_loaded, gb_mapping,
                                           Val(parsed).street_number,
                                           Val(parsed).street_name)
          IN  /\ resolution_method' = Some("address_attribute")
              /\ nearest_calls' = 0
              /\ UNCHANGED <<last_latitude, last_longitude>>
              /\ found # <<>> => current_cote_rue_id' = Some(found[1].cote_rue_id)]_vars

\* "150 Test" was resolved to street 5 although the coordinates of the same
\* update are next to street 9, and the debounce coordinate is elsewhere
C6_Witness ==
    /\ AddressUpdate(handled) /\ HasCoordinates(handled)
    /\ LatOf(handled) = G_Drift.lat /\ LonOf(handled) = G_Drift.lon
    /\ geojson = "loaded"
    /\ current_cote_rue_id = Some(5)
    /\ resolution_method = Some("address_attribute")
    /\ last_latitude = Some(G_OnStreet5.lat)

(***************************************************************************)
(* C7 as stated: every available update that carries an address or         *)
(* coordinates records the time of the event and the strategy used.        *)
(***************************************************************************)
StrategyOf(h) == IF HasAddress(h) THEN "address_attribute" ELSE "gps"

C7_Original ==
    [][(Handling /\ AvailableUpdate(handled')
        /\ (HasAddress(handled') \/ HasCoordinates(handled')))
       => /\ last_resolution' = Some(clock')
          /\ resolution_method' = Some(StrategyOf(handled'))]_vars

(***************************************************************************)
(* C7 amended: every available update that carries an address or           *)
(* coordinates and is not suppressed by the debounce records the time of   *)
(* the event and the strategy used, whether or not the id changed; a       *)
(* suppressed update leaves the timestamp and the method as they were.     *)
(***************************************************************************)
C7_TimestampUnlessSuppressed ==
    [][(Handling /\ AvailableUpdate(handled')
        /\ (HasAddress(handled') \/ HasCoordinates(handled')))
       => IF Suppressed(handled')
          THEN UNCHANGED <<last_resolution, resolution_method>>
          ELSE /\ last_resolution' = Some(clock')
               /\ resolution_method' = Some(StrategyOf(handled'))]_vars

\* the timestamp of the event was recorded although the id did not change
C7_Witness ==
    /\ GpsUpdate(handled)
    /\ clock >= 2
    /\ last_resolution = Some(clock)
    /\ resolution_method = Some("gps")
    /\ ~ IsNone(current_cote_rue_id)
    /\ notifs = <<>>

(***************************************************************************)
(* Vocabulary of the search properties: the reference ranking              *)
(***************************************************************************)
Searched == ~ IsNone(search_in)
Query == Val(search_in)

NumericBound(b) == b.t = "int" \/ (b.t = "str" /\ AllDigits(b.s))
BoundValue(b) == IF b.t = "int" THEN b.v ELSE DigitsToInt(b.s)

\* a number was supplied, both bounds are present and numeric, start <= n <= end
RefInRange(info) ==
    /\ ~ IsNone(Query.street_number)
    /\ NumericBound(info.debut_adresse) /\ NumericBound(info.fin_adresse)
    /\ BoundValue(info.debut_adresse) <= Val(Query.street_number)
    /\ Val(Query.street_number) <= BoundValue(info.fin_adresse)

RefQueryName == normalize_street_name(Query.street_name)

\* the ids of the catalog records the query matches
Matching ==
    {i \in DOMAIN Query.mapping :
        /\ Query.loaded
        /\ Query.mapping[i].nom_voie # <<>>
        /\ IsSubstring(RefQueryName, normalize_street_name(Query.mapping[i].nom_voie))}

RefScore(info) ==
    LET n == normalize_street_name(info.nom_voie)
    IN  IF n = RefQueryName THEN 100
        ELSE IF StartsWith(n, RefQueryName) THEN 60
        ELSE 40

\* record i ranks before record j in (not in_range, -score, id)
RanksBefore(i, j) ==
    LET a == Query.mapping[i]
        b == Query.mapping[j]
    IN  \/ RefInRange(a) /\ ~ RefInRange(b)
        \/ RefInRange(a) = RefInRange(b) /\ RefScore(a) > RefScore(b)
        \/ RefInRange(a) = RefInRange(b) /\ RefScore(a) = RefScore(b) /\ i < j

Returned == {search_out[k].cote_rue_id : k \in 1..Len(search_out)}

(***************************************************************************)
(* C8: search_address returns at most 10 matches: the first 10, or all,    *)
(* of the matching records in ascending (not in_range, -score, id) order.  *)
(* No matching record that is left out ranks before a returned one.        *)
(***************************************************************************)
C8_FirstTenInRankOrder ==
    Searched =>
        /\ Len(search_out) <= 10
        /\ Len(search_out) = Min(10, Cardinality(Matching))
        /\ Returned \subseteq Matching
        /\ \A k \in 1..Len(search_out) :
               /\ search_out[k].match_score = RefScore(Query.mapping[search_out[k].cote_rue_id])
               /\ search_out[k].in_range = RefInRange(Query.mapping[search_out[k].cote_rue_id])
        /\ \A k, l \in 1..Len(search_out) :
               k < l => RanksBefore(search_out[k].cote_rue_id, search_out[l].cote_rue_id)
        /\ \A i \in Matching \ Returned :
               \A k \in 1..Len(search_out) : RanksBefore(search_out[k].cote_rue_id, i)

\* more than 10 records matched, 10 were returned, and an in-range match of
\* score 40 precedes an out-of-range match of score 60
C8_Witness ==
    /\ Searched
    /\ Cardinality(Matching) > 10
    /\ Len(search_out) = 10
    /\ \E k, l \in 1..Len(search_out) :
           /\ k < l
           /\ search_out[k].in_range /\ search_out[k].match_score = 40
           /\ ~ search_out[l].in_range /\ search_out[l].match_score = 60

(***************************************************************************)
(* C9 as stated: on the catalog {5: "Test" 100-200, 9: "Testing" 1-50},    *)
(* search(150, "Test") returns id 5 (in range, score 100) and then id 9    *)
(* (out of range, score 40).                                               *)
(***************************************************************************)
ExampleSearch ==
    /\ Searched
    /\ Query.loaded
    /\ Query.mapping = CatalogOf({5, 9})
    /\ Query.street_number = Some(150)
    /\ Query.street_name = S_Test

Summary(m) == <<m.cote_rue_id, m.in_range, m.match_score>>

C9_Original ==
    ExampleSearch =>
        /\ Len(search_out) = 2
        /\ Summary(search_out[1]) = <<5, TRUE, 100>>
        /\ Summary(search_out[2]) = <<9, FALSE, 40>>

(***************************************************************************)
(* C9 amended: on that catalog search(150, "Test") returns id 5 (in range, *)
(* score 100) and then id 9 (out of range, score 60: "testing" starts with *)
(* "test").                                                                *)
(***************************************************************************)
C9_ExampleSearchResult ==
    ExampleSearch =>
        /\ Len(search_out) = 2
        /\ Summary(search_out[1]) = <<5, TRUE, 100>>
        /\ Summary(search_out[2]) = <<9, FALSE, 60>>

\* the example search was run on the example catalog
C9_Witness ==
    /\ ExampleSearch
    /\ gb_mapping[5].nom_voie = S_Test /\ gb_mapping[9].nom_voie = S_Testing
    /\ Len(search_out) = 2

(***************************************************************************)
(* C10: a match is in range exactly when a street number was supplied,     *)
(* both bounds of the record are present and numeric, and                  *)
(* start <= number <= end; a record with an absent or non-numeric bound is *)
(* still returned, with in_range false.                                    *)
(***************************************************************************)
C10_InRangeIff ==
    Searched =>
        /\ \A k \in 1..Len(search_out) :
               search_out[k].in_range
               <=> (/\ ~ IsNone(Query.street_number)
                    /\ NumericBound(search_out[k].info.debut_adresse)
                    /\ NumericBound(search_out[k].info.fin_adresse)
                    /\ BoundValue(search_out[k].info.debut_adresse)
                           <= Val(Query.street_number)
                    /\ Val(Query.street_number)
                           <= BoundValue(search_out[k].info.fin_adresse))
        /\ Cardinality(Matching) <= 10 => Returned = Matching

\* one search returned a match in range at the very end of its range, a match
\* with a non-numeric bound and a match with an absent bound
C10_Witness ==
    /\ Searched
    /\ Query.street_number = Some(200)
    /\ \E k \in 1..Len(search_out) :
           /\ search_out[k].in_range
           /\ search_out[k].info.fin_adresse = IntBound(200)
    /\ \E k \in 1..Len(search_out) :
           /\ search_out[k].info.debut_adresse.t = "str"
           /\ ~ AllDigits(search_out[k].info.debut_adresse.s)
    /\ \E k \in 1..Len(search_out) : search_out[k].info.fin_adresse = NoBound

(***************************************************************************)
(* The functions on their own: the arguments are drawn by the initial      *)
(* predicate, the action applies the function once                         *)
(***************************************************************************)
\* the resolver has handled nothing and nothing is searched
Idle ==
    /\ current_cote_rue_id = None
    /\ current_street_name = None
    /\ current_street_side = None
    /\ last_resolution = None
    /\ resolution_method = None
    /\ source_available = FALSE
    /\ last_latitude = None
    /\ last_longitude = None
    /\ subscribed = FALSE
    /\ tasks = <<>>
    /\ clock = 0
    /\ handled = NoEvent
    /\ notifs = <<>>
    /\ nearest_calls = 0
    /\ delivered = "none"
    /\ tracked_ids = {}
    /\ stored_street_data = << >>
    /\ search_in = None
    /\ search_out = <<>>

Called(fn) == call_in.fn = fn /\ call_out # NotReturned
Out == call_out[1]

(***************************************************************************)
(* _find_nearest_street on its own                                         *)
(***************************************************************************)
\* the geometry maps the handler may hold: every part of the sample geometry
NearestGeometries ==
    { [id \in ids |-> SampleGeometry[id]] : ids \in SUBSET (DOMAIN SampleGeometry) }

\* the latitudes are chosen around the polylines of latitude 10, 18 and 300:
\* on them, between them, 99 m and 100 m from them, and far from all
NearestPoints ==
    { At(dlat, dlon) : dlat \in {10, 12, 14, 16, 60, 109, 110, 117, 118, 200, 201, 450},
                       dlon \in {-60, 4, 68} }

\* get_geometry returns None for every id while the handler is not loaded
FindNearestStreet ==
    /\ call_in.fn = "find_nearest_street"
    /\ call_out = NotReturned
    /\ call_out' = Result(IF geojson = "none" THEN None
                          ELSE find_nearest_street(IF geojson = "loaded"
                                                   THEN call_in.geometry ELSE << >>,
                                                   gb_loaded, gb_mapping,
                                                   call_in.latitude, call_in.longitude))
    /\ UNCHANGED <<resolverVars, subscribed, geobaseVars, geojson, tasks, clock, handled,
                   notifs, nearest_calls, searchVars, call_in,
                   delivered, coordinatorVars>>

NearestInit ==
    /\ Idle
    /\ gb_loaded = TRUE
    /\ gb_mapping = CatalogOf(ResolverCatalogIds)
    /\ geojson \in {"none", "not_loaded", "loaded"}
    /\ call_in \in { [fn |-> "find_nearest_street", geometry |-> g,
                      latitude |-> p.lat, longitude |-> p.lon] :
                     g \in NearestGeometries, p \in NearestPoints }
    /\ call_out = NotReturned

NearestNext ==
    \/ FindNearestStreet

NearestSpec == NearestInit /\ [][NearestNext]_vars

(***************************************************************************)
(* C11: nearest-street resolution                                          *)
(***************************************************************************)
\* the entries the search considers: those of a loaded index with 2 vertices
\* or more
NearestCandidates ==
    IF geojson = "loaded"
    THEN {id \in DOMAIN call_in.geometry : Len(call_in.geometry[id]) >= 2}
    ELSE {}

\* the distances from the point to the segments of the polyline of id
SegmentDistancesOf(id) ==
    LET coordinates == call_in.geometry[id]
    IN  { point_to_segment_distance(call_in.latitude, call_in.longitude,
                                    coordinates[i][2], coordinates[i][1],
                                    coordinates[i + 1][2], coordinates[i + 1][1]).d :
          i \in 1..(Len(coordinates) - 1) }

\* the point-to-polyline distance: the least of the segment distances
PolylineDistanceOf(id) ==
    CHOOSE d \in SegmentDistancesOf(id) :
        \A e \in SegmentDistancesOf(id) : ~ DistLess(e, d)

\* C11: _find_nearest_street returns an entry of 2 vertices or more whose
\* point-to-polyline distance is the least of all such entries, and only when
\* that distance is strictly below 100 m; it returns None when the least
\* distance is 100 m or more, when no entry has 2 vertices, and when the
\* geometry index is absent or not loaded.
C11_NearestIsGlobalMinimum ==
    Called("find_nearest_street") =>
        LET within == {id \in NearestCandidates :
                          DistBelow(PolylineDistanceOf(id), NEAREST_THRESHOLD)}
        IN  IF within = {}
            THEN Out = None
            ELSE /\ Out # None
                 /\ Val(Out).cote_rue_id \in within
                 /\ \A id \in NearestCandidates :
                        ~ DistLess(PolylineDistanceOf(id),
                                   PolylineDistanceOf(Val(Out).cote_rue_id))

(***************************************************************************)
(* _point_to_segment_distance on its own                                   *)
(***************************************************************************)
SegmentPoints == { At(dlat, dlon) : dlat \in -2..MaxOffset, dlon \in -2..MaxOffset }
SegmentStarts == { At(0, 0), At(2, 1) }
SegmentEnds == { At(0, 0), At(0, 4), At(2, 1), At(4, 4), At(-2, 0), At(MaxOffset, 3) }

PointToSegmentDistance ==
    /\ call_in.fn = "point_to_segment_distance"
    /\ call_out = NotReturned
    /\ call_out' = Result(point_to_segment_distance(call_in.point.lat, call_in.point.lon,
                                                    call_in.seg_start.lat,
                                                    call_in.seg_start.lon,
                                                    call_in.seg_end.lat,
                                                    call_in.seg_end.lon))
    /\ UNCHANGED <<resolverVars, subscribed, geobaseVars, geojson, tasks, clock, handled,
                   notifs, nearest_calls, searchVars, call_in,
                   delivered, coordinatorVars>>

SegmentInit ==
    /\ Idle
    /\ gb_loaded = FALSE
    /\ gb_mapping = << >>
    /\ geojson = "none"
    /\ call_in \in { [fn |-> "point_to_segment_distance", point |-> p,
                      seg_start |-> a, seg_end |-> b] :
                     p \in SegmentPoints, a \in SegmentStarts, b \in SegmentEnds }
    /\ call_out = NotReturned

SegmentNext ==
    \/ PointToSegmentDistance

SegmentSpec == SegmentInit /\ [][SegmentNext]_vars

(***************************************************************************)
(* C12: the clamped projection                                             *)
(***************************************************************************)
\* the point and the segment end relative to the segment start, in the plane
PX == call_in.point.lon - call_in.seg_start.lon
PY == call_in.point.lat - call_in.seg_start.lat
EX == call_in.seg_end.lon - call_in.seg_start.lon
EY == call_in.seg_end.lat - call_in.seg_start.lat
SegLenSq == EX * EX + EY * EY
\* the unclamped projection parameter is Projection / SegLenSq
Projection == PX * EX + PY * EY

\* the returned distance is the square root of num / den
DistanceSqIs(num, den) ==
    /\ ~ Out.d.inf
    /\ Out.d.num * den = num * Out.d.den

\* C12: the returned t is in [0, 1] and the distance is the distance from the
\* point to the point of the segment at t; a projection below 0 gives the
\* distance to the start vertex, one above 1 the distance to the end vertex;
\* the midpoint of the segment is at distance 0 with t = 0.5; a segment whose
\* ends coincide gives the distance to that vertex with t = 0.
C12_ClampedProjection ==
    Called("point_to_segment_distance") =>
        /\ 0 <= Out.tn /\ Out.tn <= Out.td /\ Out.td > 0
        /\ DistanceSqIs((PX * Out.td - Out.tn * EX) * (PX * Out.td - Out.tn * EX)
                        + (PY * Out.td - Out.tn * EY) * (PY * Out.td - Out.tn * EY),
                        Out.td * Out.td)
        /\ (SegLenSq > 0 /\ Projection < 0) =>
               DistanceSqIs(PX * PX + PY * PY, 1) /\ Out.tn = 0
        /\ (SegLenSq > 0 /\ Projection > SegLenSq) =>
               DistanceSqIs((PX - EX) * (PX - EX) + (PY - EY) * (PY - EY), 1)
               /\ Out.tn = Out.td
        /\ (SegLenSq > 0 /\ 2 * PX = EX /\ 2 * PY = EY) =>
               DistanceSqIs(0, 1) /\ 2 * Out.tn = Out.td
        /\ SegLenSq = 0 => DistanceSqIs(PX * PX + PY * PY, 1) /\ Out.tn = 0

\* the function has run on a point whose projection falls before the start
\* of a segment of non-zero length
C12_Witness ==
    /\ Called("point_to_segment_distance")
    /\ SegLenSq > 0
    /\ Projection < 0
    /\ Out.tn = 0
    /\ Out.d = Dist((PX * PX + PY * PY) * SegLenSq, SegLenSq)

(***************************************************************************)
(* const.py: the states, and datetimes                                     *)
(***************************************************************************)
STATE_ENNEIGE == "enneige"
STATE_DENEIGE == "deneige"
STATE_PLANIFIE == "planifie"
STATE_REPLANIFIE == "replanifie"
STATE_SERA_REPLANIFIE == "sera_replanifie"
STATE_EN_COURS == "en_cours"
STATE_DEGAGE == "degage"
STATE_STATIONNEMENT_INTERDIT == "stationnement_interdit"

STATE_MAP ==
    (0 :> STATE_ENNEIGE) @@ (1 :> STATE_DENEIGE) @@ (2 :> STATE_PLANIFIE) @@
    (3 :> STATE_REPLANIFIE) @@ (4 :> STATE_SERA_REPLANIFIE) @@ (5 :> STATE_EN_COURS) @@
    (10 :> STATE_DEGAGE)

\* STATE_MAP.get(code, default)
STATE_MAP_get(code, default) ==
    IF code \in DOMAIN STATE_MAP THEN STATE_MAP[code] ELSE default

\* a datetime: the wall-clock reading w and tzinfo, None (naive) or the UTC
\* offset (aware); the instant of an aware datetime is w minus the offset
Naive(w) == [w |-> w, tzinfo |-> None]
Aware(w, offset) == [w |-> w, tzinfo |-> Some(offset)]
IsNaive(dt) == IsNone(dt.tzinfo)
replace_tzinfo(dt, tzinfo) == [dt EXCEPT !.tzinfo = tzinfo]

\* what a call does: it returns v, or raises TypeError
Returns(v) == <<v>>
Raises == <<>>

\* a <= b on datetimes: naive against aware raises TypeError
datetime_le(a, b) ==
    IF IsNaive(a) # IsNaive(b) THEN Raises
    ELSE IF IsNaive(a) THEN Returns(a.w <= b.w)
    ELSE Returns(a.w - Val(a.tzinfo) <= b.w - Val(b.tzinfo))

\* mutant: the end of the interval is excluded
chained_le_ExclusiveEnd(start, now, end) ==
    LET first == datetime_le(start, now)
        second == datetime_le(end, now)
    IN  IF first = Raises THEN Raises
        ELSE IF ~ first[1] THEN Returns(FALSE)
        ELSE IF second = Raises THEN Raises
        ELSE Returns(~ second[1])

\* start <= now <= end: the second comparison is made only if the first holds
chained_le(start, now, end) ==
    LET first == datetime_le(start, now)
    IN  IF first = Raises THEN Raises
        ELSE IF ~ first[1] THEN Returns(FALSE)
        ELSE datetime_le(now, end)

(***************************************************************************)
(* SnowRemovalCoordinator                                                  *)
(***************************************************************************)
is_within_interval(now, start, end) ==
    LET start1 == IF IsNaive(start) /\ ~ IsNaive(now)
                  THEN replace_tzinfo(start, now.tzinfo) ELSE start
        now1 == IF ~ (IsNaive(start) /\ ~ IsNaive(now)) /\ ~ IsNaive(start) /\ IsNaive(now)
                THEN replace_tzinfo(now, start.tzinfo) ELSE now
        end1 == IF IsNaive(end) /\ ~ IsNaive(now1)
                THEN replace_tzinfo(end, now1.tzinfo) ELSE end
        now2 == IF ~ (IsNaive(end) /\ ~ IsNaive(now1)) /\ ~ IsNaive(end) /\ IsNaive(now1)
                THEN replace_tzinfo(now1, end.tzinfo) ELSE now1
    IN  chained_le(start1, now2, end1)

map_etat_deneig(etat_value) == STATE_MAP_get(etat_value, STATE_ENNEIGE)

\* mutant: a ban is also derived for the in-progress state
DerivesBan_InProgressToo(base_state) ==
    base_state \in {STATE_PLANIFIE, STATE_REPLANIFIE, STATE_EN_COURS}

\* base_state in (STATE_PLANIFIE, STATE_REPLANIFIE)
DerivesBan(base_state) == base_state \in {STATE_PLANIFIE, STATE_REPLANIFIE}

\* date_deb and date_fin: both are given
BothGiven(date_deb, date_fin) == ~ IsNone(date_deb) /\ ~ IsNone(date_fin)

\* mutant: the rescheduled interval is checked whatever the base state
ChecksReplanif_Always(base_state, date_deb_replanif, date_fin_replanif) ==
    BothGiven(date_deb_replanif, date_fin_replanif)

\* base_state == STATE_REPLANIFIE and date_deb_replanif and date_fin_replanif
ChecksReplanif(base_state, date_deb_replanif, date_fin_replanif) ==
    base_state = STATE_REPLANIFIE /\ BothGiven(date_deb_replanif, date_fin_replanif)

\* now is datetime.now(), a naive datetime
derive_state_with_parking_ban(now, etat_code, date_deb_planif, date_fin_planif, date_deb_replanif, date_fin_replanif) ==
    LET base_state == STATE_MAP_get(etat_code, STATE_ENNEIGE)
        replanif == IF ChecksReplanif(base_state, date_deb_replanif, date_fin_replanif)
                    THEN is_within_interval(now, Val(date_deb_replanif),
                                            Val(date_fin_replanif))
                    ELSE Returns(FALSE)
        planif == IF BothGiven(date_deb_planif, date_fin_planif)
                  THEN is_within_interval(now, Val(date_deb_planif), Val(date_fin_planif))
                  ELSE Returns(FALSE)
    IN  IF ~ DerivesBan(base_state) THEN Returns(base_state)
        ELSE IF replanif = Raises THEN Raises
        ELSE IF replanif[1] THEN Returns(STATE_STATIONNEMENT_INTERDIT)
        ELSE IF planif = Raises THEN Raises
        ELSE IF planif[1] THEN Returns(STATE_STATIONNEMENT_INTERDIT)
        ELSE Returns(base_state)

\* the state _async_update_data stores: STATE_MAP.get(etat_code, "unknown")
StoredState(etat_code) == STATE_MAP_get(etat_code, "unknown")

\* the street record _async_update_data builds from a planification of a
\* tracked street
street_data_of(planif) ==
    [cote_rue_id |-> planif.cote_rue_id,
     state |-> StoredState(planif.etat_deneig),
     etat_code |-> planif.etat_deneig,
     date_deb_planif |-> planif.date_deb_planif,
     date_fin_planif |-> planif.date_fin_planif,
     date_deb_replanif |-> planif.date_deb_replanif,
     date_fin_replanif |-> planif.date_fin_replanif]

\* _street_data after _async_update_data has processed the planifications
RECURSIVE async_update_data(_, _, _)
async_update_data(street_data, tracked_cote_rue_ids, planifications) ==
    IF planifications = <<>> THEN street_data
    ELSE LET planif == Head(planifications)
         IN  async_update_data(
                 IF planif.cote_rue_id \notin tracked_cote_rue_ids THEN street_data
                 ELSE (planif.cote_rue_id :> street_data_of(planif)) @@ street_data,
                 tracked_cote_rue_ids, Tail(planifications))

\* _street_data.get(cote_rue_id)
get_street_data(street_data, cote_rue_id) ==
    IF cote_rue_id \in DOMAIN street_data THEN Some(street_data[cote_rue_id]) ELSE None

(***************************************************************************)
(* The coordinator's functions on their own                                *)
(***************************************************************************)
EtatCodes == 0..MaxCode

\* datetime.now(): a naive datetime
NowSamples == { Naive(w) : w \in 0..MaxTime }

\* the dates of an interval of a planification: each may be missing; the
\* dates are parsed without an offset, or both with one
IntervalChoices ==
    { [deb |-> d, fin |-> f] : d \in {None, Some(Naive(1)), Some(Naive(3))},
                               f \in {None, Some(Naive(2)), Some(Naive(3))} }
    \cup { [deb |-> Some(Aware(2, 1)), fin |-> Some(Aware(3, 1))] }

PlanifOf(cote_rue_id, etat_deneig, planif, replanif) ==
    [cote_rue_id |-> cote_rue_id, etat_deneig |-> etat_deneig,
     date_deb_planif |-> planif.deb, date_fin_planif |-> planif.fin,
     date_deb_replanif |-> replanif.deb, date_fin_replanif |-> replanif.fin]

\* planifications of the street 5
Planifs ==
    { PlanifOf(5, c, p, r) : c \in EtatCodes, p \in IntervalChoices, r \in IntervalChoices }

DeriveState ==
    /\ call_in.fn = "derive_state_with_parking_ban"
    /\ call_out = NotReturned
    /\ call_out' = Result(derive_state_with_parking_ban(
                              call_in.now, call_in.planif.etat_deneig,
                              call_in.planif.date_deb_planif,
                              call_in.planif.date_fin_planif,
                              call_in.planif.date_deb_replanif,
                              call_in.planif.date_fin_replanif))
    /\ UNCHANGED <<resolverVars, subscribed, geobaseVars, geojson, tasks, clock, handled,
                   notifs, nearest_calls, searchVars, call_in,
                   delivered, coordinatorVars>>

MapEtatDeneig ==
    /\ call_in.fn = "map_etat_deneig"
    /\ call_out = NotReturned
    /\ call_out' = Result(map_etat_deneig(call_in.etat_value))
    /\ UNCHANGED <<resolverVars, subscribed, geobaseVars, geojson, tasks, clock, handled,
                   notifs, nearest_calls, searchVars, call_in,
                   delivered, coordinatorVars>>

\* the coordinator starts with no street record
AsyncUpdateData ==
    /\ call_in.fn = "async_update_data"
    /\ call_out = NotReturned
    /\ call_out' = Result(async_update_data(<< >>, call_in.tracked_cote_rue_ids,
                                            call_in.planifications))
    /\ UNCHANGED <<resolverVars, subscribed, geobaseVars, geojson, tasks, clock, handled,
                   notifs, nearest_calls, searchVars, call_in,
                   delivered, coordinatorVars>>

DeriveInit ==
    /\ Idle
    /\ gb_loaded = FALSE
    /\ gb_mapping = << >>
    /\ geojson = "none"
    /\ call_in \in
         { [fn |-> "derive_state_with_parking_ban", now |-> now, planif |-> planif] :
           now \in NowSamples, planif \in Planifs }
         \cup { [fn |-> "map_etat_deneig", etat_value |-> c] : c \in EtatCodes }
         \cup { [fn |-> "async_update_data", tracked_cote_rue_ids |-> t,
                 planifications |-> <<planif>>] :
                t \in {{5}, {9}}, planif \in Planifs }
    /\ call_out = NotReturned

DeriveNext ==
    \/ DeriveState
    \/ MapEtatDeneig
    \/ AsyncUpdateData

DeriveSpec == DeriveInit /\ [][DeriveNext]_vars

(***************************************************************************)
(* C13: the derived state                                                  *)
(***************************************************************************)
\* the 7 entries of the table of states, and the snowy state for the rest
BaseStateOf(code) ==
    CASE code = 0 -> "enneige"
      [] code = 1 -> "deneige"
      [] code = 2 -> "planifie"
      [] code = 3 -> "replanifie"
      [] code = 4 -> "sera_replanifie"
      [] code = 5 -> "en_cours"
      [] code = 10 -> "degage"
      [] OTHER -> "enneige"

\* the instant of a datetime, a naive one being given the offset assumed
InstantOf(dt, assumed) == dt.w - (IF IsNaive(dt) THEN assumed ELSE Val(dt.tzinfo))

\* the interval is present and contains the naive instant now, which is
\* given the offset of the dates
Contains(now, deb, fin) ==
    /\ ~ IsNone(deb)
    /\ ~ IsNone(fin)
    /\ LET assumed == IF ~ IsNaive(Val(deb)) THEN Val(Val(deb).tzinfo)
                      ELSE IF ~ IsNaive(Val(fin)) THEN Val(Val(fin).tzinfo)
                      ELSE 0
       IN  /\ InstantOf(Val(deb), assumed) <= InstantOf(now, assumed)
           /\ InstantOf(now, assumed) <= InstantOf(Val(fin), assumed)

InPlanif == Contains(call_in.now, call_in.planif.date_deb_planif,
                     call_in.planif.date_fin_planif)
InReplanif == Contains(call_in.now, call_in.planif.date_deb_replanif,
                       call_in.planif.date_fin_replanif)

C14_Original ==
    (Called("derive_state_with_parking_ban") /\ call_in.planif.etat_deneig = 5) =>
        Out = Returns("stationnement_interdit")

\* C14: for the code 5, derive returns the in-progress state whatever the
\* intervals are, present or not, containing the instant or not, and never
\* parking-forbidden.
C14_InProgressUnchanged ==
    (Called("derive_state_with_parking_ban") /\ call_in.planif.etat_deneig = 5) =>
        Out = Returns("en_cours")

\* derive has run on an in-progress street whose planned and rescheduled
\* intervals both contain the instant
C14_Witness ==
    /\ Called("derive_state_with_parking_ban")
    /\ call_in.planif.etat_deneig = 5
    /\ InPlanif
    /\ InReplanif
    /\ Out = Returns("en_cours")

(***************************************************************************)
(* C17: the codes outside the table                                        *)
(***************************************************************************)
InTable(code) == code \in {0, 1, 2, 3, 4, 5, 10}

\* C17: a code outside the table of 7 codes is mapped to the snowy state by
\* derive_state_with_parking_ban, by _map_etat_deneig, and in the state of the
\* street record that _async_update_data stores.
C17_UnknownCodeIsSnowy ==
    /\ (Called("derive_state_with_parking_ban") /\ ~ InTable(call_in.planif.etat_deneig))
           => Out = Returns("enneige")
    /\ (Called("map_etat_deneig") /\ ~ InTable(call_in.etat_value))
           => Out = "enneige"
    /\ (Called("async_update_data")
        /\ 5 \in call_in.tracked_cote_rue_ids
        /\ ~ InTable(call_in.planifications[1].etat_deneig))
           => 5 \in DOMAIN Out /\ Out[5].state = "enneige"

(***************************************************************************)
(* C18: the ends of the interval                                           *)
(***************************************************************************)
\* the interval that decides the ban of a planned or rescheduled street,
\* when its dates are naive and in order
DecidingInterval ==
    LET planif == call_in.planif
    IN  IF planif.etat_deneig = 3 /\ BothGiven(planif.date_deb_replanif,
                                               planif.date_fin_replanif)
        THEN [deb |-> planif.date_deb_replanif, fin |-> planif.date_fin_replanif]
        ELSE [deb |-> planif.date_deb_planif, fin |-> planif.date_fin_planif]

\* derive has run on a planned street (or a rescheduled street with one
\* interval only) whose interval has naive dates in order
OneNaiveInterval ==
    /\ Called("derive_state_with_parking_ban")
    /\ call_in.planif.etat_deneig \in {2, 3}
    /\ call_in.planif.etat_deneig = 3 =>
           ~ (BothGiven(call_in.planif.date_deb_replanif,
                        call_in.planif.date_fin_replanif)
              /\ BothGiven(call_in.planif.date_deb_planif,
                           call_in.planif.date_fin_planif))
    /\ BothGiven(DecidingInterval.deb, DecidingInterval.fin)
    /\ IsNaive(Val(DecidingInterval.deb))
    /\ IsNaive(Val(DecidingInterval.fin))
    /\ Val(DecidingInterval.deb).w <= Val(DecidingInterval.fin).w

\* C18: the interval is closed: derive returns parking-forbidden at the
\* instant of its start and at the instant of its end, and the base state
\* one tick before the start and one tick after the end.
C18_InclusiveEnds ==
    OneNaiveInterval =>
        LET start == Val(DecidingInterval.deb).w
            end == Val(DecidingInterval.fin).w
            now == call_in.now.w
            base == BaseStateOf(call_in.planif.etat_deneig)
        IN  /\ now \in {start, end} => Out = Returns("stationnement_interdit")
            /\ now \in {start - 1, end + 1} => Out = Returns(base)

\* derive has run at the instant of the end of an interval that is longer
\* than one tick, and has returned parking-forbidden
C18_Witness ==
    /\ OneNaiveInterval
    /\ call_in.now.w = Val(DecidingInterval.fin).w
    /\ Val(DecidingInterval.deb).w < Val(DecidingInterval.fin).w
    /\ Out = Returns("stationnement_interdit")

(***************************************************************************)
(* The interval containment on its own: the coordinator's, and the copy    *)
(* of the sensors                                                          *)
(***************************************************************************)
\* ParkingBanSensor._is_within_period and VehicleEntityMixin._is_within_period
is_within_period(now, start, end) ==
    LET start1 == IF IsNaive(start) /\ ~ IsNaive(now)
                  THEN replace_tzinfo(start, now.tzinfo) ELSE start
        now1 == IF ~ (IsNaive(start) /\ ~ IsNaive(now)) /\ ~ IsNaive(start) /\ IsNaive(now)
                THEN replace_tzinfo(now, start.tzinfo) ELSE now
        end1 == IF IsNaive(end) /\ ~ IsNaive(now1)
                THEN replace_tzinfo(end, now1.tzinfo) ELSE end
        now2 == IF ~ (IsNaive(end) /\ ~ IsNaive(now1)) /\ ~ IsNaive(end) /\ IsNaive(now1)
                THEN replace_tzinfo(now1, end.tzinfo) ELSE now1
    IN  chained_le(start1, now2, end1)

TzOffsets == {0, 2}
Datetimes ==
    { Naive(w) : w \in 1..3 } \cup { Aware(w, offset) : w \in 1..3, offset \in TzOffsets }

IsWithinInterval ==
    /\ call_in.fn = "is_within_interval"
    /\ call_out = NotReturned
    /\ call_out' = Result(is_within_interval(call_in.now, call_in.start, call_in.end))
    /\ UNCHANGED <<resolverVars, subscribed, geobaseVars, geojson, tasks, clock, handled,
                   notifs, nearest_calls, searchVars, call_in,
                   delivered, coordinatorVars>>

IsWithinPeriod ==
    /\ call_in.fn = "is_within_period"
    /\ call_out = NotReturned
    /\ call_out' = Result(is_within_period(call_in.now, call_in.start, call_in.end))
    /\ UNCHANGED <<resolverVars, subscribed, geobaseVars, geojson, tasks, clock, handled,
                   notifs, nearest_calls, searchVars, call_in,
                   delivered, coordinatorVars>>

IntervalInit ==
    /\ Idle
    /\ gb_loaded = FALSE
    /\ gb_mapping = << >>
    /\ geojson = "none"
    /\ call_in \in { [fn |-> fn, now |-> now, start |-> start, end |-> end] :
                     fn \in {"is_within_interval", "is_within_period"},
                     now \in Datetimes, start \in Datetimes, end \in Datetimes }
    /\ call_out = NotReturned

IntervalNext ==
    \/ IsWithinInterval
    \/ IsWithinPeriod

IntervalSpec == IntervalInit /\ [][IntervalNext]_vars

(***************************************************************************)
(* C15: naive and aware datetimes                                          *)
(***************************************************************************)
\* the offsets of the aware operands of the call
AwareOffsets ==
    { Val(dt.tzinfo) : dt \in { d \in {call_in.now, call_in.start, call_in.end} :
                                 ~ IsNaive(d) } }

\* the containment with every naive operand given the offset assumed
WithinAssuming(assumed) ==
    /\ InstantOf(call_in.start, assumed) <= InstantOf(call_in.now, assumed)
    /\ InstantOf(call_in.now, assumed) <= InstantOf(call_in.end, assumed)

\* C15: the interval containment never raises: whatever the evaluation
\* instant, the start and the end are, naive or aware, it returns a boolean,
\* the one computed with every naive operand given the offset of an aware one.
C15_NeverRaises ==
    (Called("is_within_interval") \/ Called("is_within_period")) =>
        /\ Out # Raises
        /\ \E assumed \in (IF AwareOffsets = {} THEN {0} ELSE AwareOffsets) :
               Out = Returns(WithinAssuming(assumed))

(***************************************************************************)
(* The parking-ban sensors                                                 *)
(***************************************************************************)
\* the part of is_on that ParkingBanSensor and VehicleParkingBanSensor share:
\* the ban of a street record at the naive datetime now
BanOf(now, street_data) ==
    LET state == street_data.state
    IN  IF state = STATE_EN_COURS THEN Returns(TRUE)
        ELSE IF state = STATE_PLANIFIE
                /\ BothGiven(street_data.date_deb_planif, street_data.date_fin_planif)
        THEN is_within_period(now, Val(street_data.date_deb_planif),
                              Val(street_data.date_fin_planif))
        ELSE IF state = STATE_REPLANIFIE
                /\ BothGiven(street_data.date_deb_replanif, street_data.date_fin_replanif)
        THEN is_within_period(now, Val(street_data.date_deb_replanif),
                              Val(street_data.date_fin_replanif))
        ELSE IF state = STATE_REPLANIFIE
                /\ BothGiven(street_data.date_deb_planif, street_data.date_fin_planif)
        THEN is_within_period(now, Val(street_data.date_deb_planif),
                              Val(street_data.date_fin_planif))
        ELSE Returns(FALSE)

\* ParkingBanSensor.is_on: True or False
ParkingBanSensor_is_on(now, street_data, cote_rue_id) ==
    LET record == get_street_data(street_data, cote_rue_id)
    IN  IF IsNone(record) THEN Returns(FALSE) ELSE BanOf(now, Val(record))

\* mutant: the ban sensor is off, not unknown, when the source is unavailable
VehicleParkingBanSensor_is_on_OffWhenUnavailable(now, street_data, resolver_source_available, resolver_cote_rue_id) ==
    IF ~ resolver_source_available THEN Returns(Some(FALSE))
    ELSE IF IsNone(resolver_cote_rue_id) THEN Returns(None)
    ELSE LET record == get_street_data(street_data, Val(resolver_cote_rue_id))
             ban == IF IsNone(record) THEN Returns(FALSE) ELSE BanOf(now, Val(record))
         IN  IF ban = Raises THEN Raises ELSE Returns(Some(ban[1]))

\* VehicleParkingBanSensor.is_on: Some(True), Some(False), or None
VehicleParkingBanSensor_is_on(now, street_data, resolver_source_available, resolver_cote_rue_id) ==
    IF ~ resolver_source_available THEN Returns(None)
    ELSE IF IsNone(resolver_cote_rue_id) THEN Returns(None)
    ELSE LET record == get_street_data(street_data, Val(resolver_cote_rue_id))
             ban == IF IsNone(record) THEN Returns(FALSE) ELSE BanOf(now, Val(record))
         IN  IF ban = Raises THEN Raises ELSE Returns(Some(ban[1]))

\* the planifications the vehicle sensor is read on
VehiclePlanifs == { planif \in Planifs : planif.etat_deneig \in {2, 3, 5, 6} }

\* the coordinator tracks the street 5 and has processed one planification
ParkingBanIsOn ==
    /\ call_in.fn = "ParkingBanSensor.is_on"
    /\ call_out = NotReturned
    /\ call_out' = Result(ParkingBanSensor_is_on(
                              call_in.now,
                              async_update_data(<< >>, {5}, <<call_in.planif>>), 5))
    /\ UNCHANGED <<resolverVars, subscribed, geobaseVars, geojson, tasks, clock, handled,
                   notifs, nearest_calls, searchVars, call_in,
                   delivered, coordinatorVars>>

VehicleParkingBanIsOn ==
    /\ call_in.fn = "VehicleParkingBanSensor.is_on"
    /\ call_out = NotReturned
    /\ call_out' = Result(VehicleParkingBanSensor_is_on(
                              call_in.now,
                              async_update_data(<< >>, {5}, <<call_in.planif>>),
                              call_in.source_available, call_in.current_cote_rue_id))
    /\ UNCHANGED <<resolverVars, subscribed, geobaseVars, geojson, tasks, clock, handled,
                   notifs, nearest_calls, searchVars, call_in,
                   delivered, coordinatorVars>>

SensorInit ==
    /\ Idle
    /\ gb_loaded = FALSE
    /\ gb_mapping = << >>
    /\ geojson = "none"
    /\ call_in \in
         { [fn |-> "ParkingBanSensor.is_on", now |-> now, planif |-> planif] :
           now \in NowSamples, planif \in Planifs }
         \cup { [fn |-> "VehicleParkingBanSensor.is_on", now |-> now, planif |-> planif,
                 source_available |-> r[1], current_cote_rue_id |-> r[2]] :
                now \in NowSamples, planif \in VehiclePlanifs,
                r \in { <<TRUE, Some(5)>>, <<TRUE, Some(9)>>, <<TRUE, None>>,
                        <<FALSE, Some(5)>> } }
    /\ call_out = NotReturned

SensorNext ==
    \/ ParkingBanIsOn
    \/ VehicleParkingBanIsOn

SensorSpec == SensorInit /\ [][SensorNext]_vars

(***************************************************************************)
(* C16: the sensors and the derived state                                  *)
(***************************************************************************)
\* the ban according to derive_state_with_parking_ban on the same code and
\* dates: parking-forbidden, or in progress
DerivedBan ==
    \/ derive_state_with_parking_ban(call_in.now, call_in.planif.etat_deneig,
                                     call_in.planif.date_deb_planif,
                                     call_in.planif.date_fin_planif,
                                     call_in.planif.date_deb_replanif,
                                     call_in.planif.date_fin_replanif)
           = Returns(STATE_STATIONNEMENT_INTERDIT)
    \/ BaseStateOf(call_in.planif.etat_deneig) = "en_cours"

\* C16: ParkingBanSensor.is_on, and VehicleParkingBanSensor.is_on when the
\* source is available and the street of the record is resolved, are true
\* exactly when derive_state_with_parking_ban on the same code and dates
\* returns parking-forbidden or the base state is in progress.
C16_SensorsAgreeWithDerive ==
    /\ Called("ParkingBanSensor.is_on") => Out = Returns(DerivedBan)
    /\ (Called("VehicleParkingBanSensor.is_on")
        /\ call_in.source_available
        /\ call_in.current_cote_rue_id = Some(5))
           => Out = Returns(Some(DerivedBan))

(***************************************************************************)
(* normalize_street_name on its own                                        *)
(***************************************************************************)
\* lower-case, upper-case, precomposed and decomposed accents, whitespace
NormalizeAlphabet == {"a", "T", "E_ACUTE", "e_acute", "COMBINING_ACUTE", " "}

RECURSIVE StringsUpTo(_, _)
StringsUpTo(alphabet, n) ==
    IF n = 0 THEN {<<>>}
    ELSE LET shorter == StringsUpTo(alphabet, n - 1)
         IN  shorter \cup {Append(s, c) : s \in shorter, c \in alphabet}

NormalizeStreetName ==
    /\ call_in.fn = "normalize_street_name"
    /\ call_out = NotReturned
    /\ call_out' = Result(normalize_street_name(call_in.name))
    /\ UNCHANGED <<resolverVars, subscribed, geobaseVars, geojson, tasks, clock, handled,
                   notifs, nearest_calls, searchVars, call_in,
                   delivered, coordinatorVars>>

NormalizeInit ==
    /\ Idle
    /\ gb_loaded = FALSE
    /\ gb_mapping = << >>
    /\ geojson = "none"
    /\ call_in \in { [fn |-> "normalize_street_name", name |-> name] :
                     name \in StringsUpTo(NormalizeAlphabet, MaxLen) }
    /\ call_out = NotReturned

NormalizeNext ==
    \/ NormalizeStreetName

NormalizeSpec == NormalizeInit /\ [][NormalizeNext]_vars

(***************************************************************************)
(* C19: normalization is idempotent                                        *)
(***************************************************************************)
\* C19: normalize_street_name(normalize_street_name(x)) equals
\* normalize_street_name(x) for every string x: empty, already normalized,
\* accented, upper-case or padded with whitespace.
C19_NormalizeIdempotent ==
    Called("normalize_street_name") => normalize_street_name(Out) = Out

\* a name with an upper-case letter, an accent and padding on both sides has
\* been normalized to a shorter, non-empty name
C19_Witness ==
    /\ Called("normalize_street_name")
    /\ call_in.name # <<>>
    /\ Head(call_in.name) = " "
    /\ call_in.name[Len(call_in.name)] = " "
    /\ InSeq("E_ACUTE", call_in.name)
    /\ Out # <<>>
    /\ Out # call_in.name

(***************************************************************************)
(* parse_address on its own                                                *)
(***************************************************************************)
S_1234 == <<"1", "2", "3", "4">>
S_avenue == <<"a", "v", "e", "n", "u", "e">>

\* a number, two street types, a name and the empty word, each followed by
\* nothing, a space or a line feed
AddressWords == {S_1234, S_avenue, S_rue, S_Test, <<>>}
AddressSeparators == {<<>>, <<" ">>, <<"NEWLINE">>}

RECURSIVE AddressesUpTo(_)
AddressesUpTo(n) ==
    IF n = 0 THEN {<<>>}
    ELSE LET shorter == AddressesUpTo(n - 1)
         IN  shorter \cup {a \o w \o sep : a \in shorter, w \in AddressWords,
                                          sep \in AddressSeparators}

ParseAddress ==
    /\ call_in.fn = "parse_address"
    /\ call_out = NotReturned
    /\ call_out' = Result(parse_address(call_in.full_address))
    /\ UNCHANGED <<resolverVars, subscribed, geobaseVars, geojson, tasks, clock, handled,
                   notifs, nearest_calls, searchVars, call_in,
                   delivered, coordinatorVars>>

ParseInit ==
    /\ Idle
    /\ gb_loaded = FALSE
    /\ gb_mapping = << >>
    /\ geojson = "none"
    /\ call_in \in { [fn |-> "parse_address", full_address |-> a] :
                     a \in AddressesUpTo(MaxWords) }
    /\ call_out = NotReturned

ParseNext ==
    \/ ParseAddress

ParseSpec == ParseInit /\ [][ParseNext]_vars

(***************************************************************************)
(* C20: parse_address against its reference                                *)
(***************************************************************************)
\* the ways to read s as digits, whitespace and a non-empty tail
NumberSplits(s) ==
    { <<n, k>> \in (1..Len(s)) \X (1..Len(s)) :
        /\ n < k /\ k <= Len(s)
        /\ \A i \in 1..n : s[i] \in DigitSet
        /\ \A i \in (n + 1)..(k - 1) : s[i] \in Whitespace
        /\ n + 1 <= k - 1
        /\ s[k] \notin Whitespace }

RefNumber(s) ==
    IF NumberSplits(s) = {} THEN None
    ELSE LET nk == CHOOSE nk \in NumberSplits(s) : TRUE
         IN  Some(DigitsToInt(SubSeq(s, 1, nk[1])))

RefTail(s) ==
    IF NumberSplits(s) = {} THEN s
    ELSE LET nk == CHOOSE nk \in NumberSplits(s) : TRUE
         IN  SubSeq(s, nk[2], Len(s))

RefParse(full_address) ==
    LET s == Strip(full_address)
        tokens == Split(normalize_street_name(RefTail(s)))
        typed == {i \in 1..Len(tokens) : InSynonymTable(tokens[i])}
        first == CHOOSE i \in typed : \A j \in typed : i <= j
        others == IF typed = {} THEN tokens
                  ELSE SelectSeq([i \in 1..Len(tokens) |-> <<i, tokens[i]>>],
                                 LAMBDA it : it[1] # first)
        name == IF typed = {} THEN JoinSpace(tokens)
                ELSE JoinSpace([i \in 1..Len(others) |-> others[i][2]])
    IN  IF s = <<>> \/ name = <<>> THEN None
        ELSE Some([street_number |-> RefNumber(s),
                   street_name |-> name,
                   street_type |-> IF typed = {} THEN None
                                   ELSE Some(SYNONYM_TO_TYPE(tokens[first]))])

\* number, name and type of a parse result
Components(parsed) ==
    IF parsed = None THEN None
    ELSE Some([street_number |-> Val(parsed).street_number,
               street_name |-> Val(parsed).street_name,
               street_type |-> Val(parsed).street_type])

\* C20: parse_address equals the reference for every input: null on blank
\* input, leading digits followed by whitespace and a non-empty tail are the
\* street number, the first token of the synonym table gives the type, the
\* other tokens joined in order are the name, and the result is null when the
\* name would be empty.
C20_ParseEqualsReference ==
    Called("parse_address") => Components(Out) = RefParse(call_in.full_address)

(***************************************************************************)
(* The vehicle entities read the resolver and the coordinator              *)
(***************************************************************************)
STATE_OUTSIDE_COVERAGE == "outside_coverage"
STATE_SOURCE_UNAVAILABLE == "source_unavailable"

\* VehicleEntityMixin._get_street_data
VehicleEntityMixin_get_street_data(street_data, resolver_cote_rue_id) ==
    IF IsNone(resolver_cote_rue_id) THEN None
    ELSE get_street_data(street_data, Val(resolver_cote_rue_id))

\* mutant: the resolved id is looked at before the availability of the source
VehicleStatusSensor_native_value_ResolvedFirst(street_data, resolver_source_available, resolver_cote_rue_id) ==
    IF IsNone(resolver_cote_rue_id) THEN STATE_OUTSIDE_COVERAGE
    ELSE IF ~ resolver_source_available THEN STATE_SOURCE_UNAVAILABLE
    ELSE LET record == VehicleEntityMixin_get_street_data(street_data, resolver_cote_rue_id)
         IN  IF IsNone(record) THEN STATE_OUTSIDE_COVERAGE ELSE Val(record).state

\* VehicleStatusSensor.native_value
VehicleStatusSensor_native_value(street_data, resolver_source_available, resolver_cote_rue_id) ==
    IF ~ resolver_source_available THEN STATE_SOURCE_UNAVAILABLE
    ELSE IF IsNone(resolver_cote_rue_id) THEN STATE_OUTSIDE_COVERAGE
    ELSE LET record == VehicleEntityMixin_get_street_data(street_data, resolver_cote_rue_id)
         IN  IF IsNone(record) THEN STATE_OUTSIDE_COVERAGE ELSE Val(record).state

\* what the API returns: snow removal in progress on the streets 5 and 9
SamplePlanifications ==
    << PlanifOf(5, 5, [deb |-> None, fin |-> None], [deb |-> None, fin |-> None]),
       PlanifOf(9, 5, [deb |-> None, fin |-> None], [deb |-> None, fin |-> None]) >>

(***************************************************************************)
(* The resolver of one vehicle: the coordinator has been constructed with  *)
(* its tracked streets and has run its first refresh                       *)
(***************************************************************************)
Init ==
    /\ current_cote_rue_id = None
    /\ current_street_name = None
    /\ current_street_side = None
    /\ last_resolution = None
    /\ resolution_method = None
    /\ source_available = FALSE
    /\ last_latitude = None
    /\ last_longitude = None
    /\ subscribed = FALSE
    /\ gb_loaded = TRUE
    /\ gb_mapping = CatalogOf(ResolverCatalogIds)
    /\ geojson \in {"none", "not_loaded", "loaded"}
    /\ tasks = <<>>
    /\ clock = 0
    /\ handled = NoEvent
    /\ notifs = <<>>
    /\ nearest_calls = 0
    /\ search_in = None
    /\ search_out = <<>>
    /\ call_in = NoCall
    /\ call_out = NotReturned
    /\ delivered = "none"
    /\ tracked_ids = {5}
    /\ stored_street_data = async_update_data(<< >>, tracked_ids, SamplePlanifications)

Next ==
    \/ async_start
    \/ StateRemoved
    \/ StateChanged
    \/ RunTask
    \/ GeoJSONLoaded

Spec == Init /\ [][Next]_vars

\* the two vehicle entities as they read the state
native_value ==
    VehicleStatusSensor_native_value(stored_street_data, source_available,
                                     current_cote_rue_id)
is_on ==
    VehicleParkingBanSensor_is_on(Naive(1), stored_street_data, source_available,
                                  current_cote_rue_id)

(***************************************************************************)
(* C21: the events of one source are handled serially                      *)
(***************************************************************************)
\* C21: events are handled one by one and to completion, the scheduled
\* resolution included, so the final state is that of applying them in
\* delivery order: once every scheduled resolution has run, a removal
\* delivered last leaves the source-availability flag false.
C21_RemovalDeliveredLastEndsUnavailable ==
    (delivered = "removed" /\ tasks = <<>>) => ~ source_available

(***************************************************************************)
(* C22: the initial state of a resolver                                    *)
(***************************************************************************)
\* C22: a resolver that has processed no update is Unresolved, not
\* SourceUnavailable: it holds no resolved id and the vehicle status sensor
\* does not report the source as unavailable.
C22_Original ==
    handled = NoEvent =>
        /\ IsNone(current_cote_rue_id)
        /\ native_value # STATE_SOURCE_UNAVAILABLE

\* C22 (amended): a resolver that has processed no update holds no resolved
\* id and its source-availability flag is false, so the vehicle status sensor
\* reports source_unavailable and the ban sensor is unknown until a first
\* available update is processed.
C22_InitiallySourceUnavailable ==
    handled = NoEvent =>
        /\ IsNone(current_cote_rue_id)
        /\ ~ source_available
        /\ native_value = STATE_SOURCE_UNAVAILABLE
        /\ is_on = Returns(None)

\* the resolver was started while its source had no state, and an update is
\* scheduled but not processed yet
C22_Witness ==
    /\ handled = NoEvent
    /\ subscribed
    /\ tasks # <<>>

(***************************************************************************)
(* C23: what a suppressed GPS update retains                               *)
(***************************************************************************)
\* the id the nearest-street resolution gives for the debounce coordinate
AnchorResolution ==
    IF geojson # "loaded" THEN None
    ELSE LET nearest == find_nearest_street(geometry_map, gb_loaded, gb_mapping,
                                            Val(last_latitude), Val(last_longitude))
         IN  IF IsNone(nearest) THEN None ELSE Some(Val(nearest).cote_rue_id)

\* C23: whenever a GPS update is suppressed by the debounce, the resolved id
\* after it is the id the nearest-street resolution returns for the debounce
\* coordinate, whatever updates came before, an out-of-bounds update or an
\* address-based update after the anchor included.
C23_SuppressedRetainsAnchorResolution ==
    [][(Handling /\ Suppressed(handled'))
       => current_cote_rue_id' = AnchorResolution]_vars

(***************************************************************************)
(* C24: a GPS update processed without the geometry is retried             *)
(***************************************************************************)
\* the event handled last was a GPS update inside the box that recorded a
\* resolution without a nearest-street computation: the geometry index was
\* absent or not loaded
ProcessedWithoutGeometry ==
    /\ GpsUpdate(handled) /\ InBox(handled)
    /\ last_resolution = Some(clock)
    /\ nearest_calls = 0

\* the id of the street nearest to the coordinates of an update
NearestOf(h) ==
    LET nearest == find_nearest_street(geometry_map, gb_loaded, gb_mapping,
                                       LatOf(h), LonOf(h))
    IN  IF IsNone(nearest) THEN None ELSE Some(Val(nearest).cote_rue_id)

\* C24: geometry unavailability is retried: when a GPS update was processed
\* while the geometry index was absent or not loaded, the next GPS update at
\* the same coordinate, or within 5 m of it, that is handled once the index
\* is loaded and lies within 100 m of a polyline resolves to that street.
C24_ResolvesOnceGeometryLoaded ==
    [][(/\ Handling
        /\ ProcessedWithoutGeometry
        /\ geojson = "loaded"
        /\ GpsUpdate(handled') /\ InBox(handled')
        /\ DistanceSq(handled, handled') <= 25
        /\ ~ IsNone(NearestOf(handled')))
       => current_cote_rue_id' = NearestOf(handled')]_vars

(***************************************************************************)
(* C25: the scores a search returns                                        *)
(***************************************************************************)
\* C25: no search result carries the score 80 or the score 0: after the
\* substring filter every score is 100 (the normalized names are equal), 60
\* (the entry name starts with the query and is not equal to it) or 40 (the
\* query occurs only inside the entry name).
C25_ScoresAre100_60_40 ==
    Searched =>
        \A k \in 1..Len(search_out) :
            LET score == search_out[k].match_score
                entry == normalize_street_name(search_out[k].info.nom_voie)
            IN  /\ score \in {100, 60, 40}
                /\ score = 100 <=> entry = RefQueryName
                /\ score = 60 <=> (StartsWith(entry, RefQueryName) /\ entry # RefQueryName)
                /\ score = 40 <=> (/\ ~ StartsWith(entry, RefQueryName)
                                   /\ IsSubstring(RefQueryName, entry))

\* one search returned an equal name, a name the query starts and a name
\* that holds the query inside
C25_Witness ==
    /\ Searched
    /\ \A score \in {100, 60, 40} :
           \E k \in 1..Len(search_out) : search_out[k].match_score = score

(***************************************************************************)
(* One update handled by a resolver that has handled none                  *)
(***************************************************************************)
\* the values an attribute may have: missing, not a string, empty, blank, a
\* text, the text with whitespace around it
AttributeValues(text) ==
    {None, Some(OtherVal), Some(StrVal(<<>>)), Some(StrVal(<<" ">>)), Some(StrVal(text)),
     Some(StrVal(<<" ">> \o text \o <<" ">>))}

ExtractStates ==
    { StateOf("home", [street |-> s, formatted_address |-> f, address |-> a,
                       latitude |-> g[1], longitude |-> g[2]]) :
        s \in AttributeValues(S_Test), f \in AttributeValues(S_Zed),
        a \in AttributeValues(S_abc),
        g \in {<<None, None>>, <<Some(G_OnStreet5.lat), Some(G_OnStreet5.lon)>>} }

\* _async_resolve_from_state, with the address it extracts
ResolveFromState ==
    /\ call_in.fn = "_async_resolve_from_state"
    /\ call_out = NotReturned
    /\ async_resolve_from_state(call_in.state)
    /\ call_out' = Result(extract_address_from_attributes(call_in.state.attributes))
    /\ UNCHANGED <<subscribed, geobaseVars, geojson, tasks, searchVars, call_in, delivered,
                   coordinatorVars>>

ExtractInit ==
    /\ Idle
    /\ gb_loaded = TRUE
    /\ gb_mapping = CatalogOf(ResolverCatalogIds)
    /\ geojson = "loaded"
    /\ call_in \in { [fn |-> "_async_resolve_from_state", state |-> state] :
                     state \in ExtractStates }
    /\ call_out = NotReturned

ExtractNext ==
    \/ ResolveFromState

ExtractSpec == ExtractInit /\ [][ExtractNext]_vars

(***************************************************************************)
(* C26: the textual address of an update                                   *)
(***************************************************************************)
\* the attribute is a string that is not blank once trimmed
Qualifies(value) ==
    /\ ~ IsNone(value)
    /\ Val(value).t = "str"
    /\ \E i \in 1..Len(Val(value).s) : Val(value).s[i] \notin Whitespace

Trimmed(value) == Some(Strip(Val(value).s))

RefAddress(attributes) ==
    IF Qualifies(attributes.street) THEN Trimmed(attributes.street)
    ELSE IF Qualifies(attributes.formatted_address) THEN Trimmed(attributes.formatted_address)
    ELSE IF Qualifies(attributes.address) THEN Trimmed(attributes.address)
    ELSE None

\* C26: the textual address of an update is the (trimmed) value of the first
\* of the attributes street, formatted_address, address that is a string and
\* not blank; missing, non-string and blank attributes are skipped; the
\* address path is taken when there is one, and when none qualifies the GPS
\* path is tried.
C26_FirstUsableAttribute ==
    Called("_async_resolve_from_state") =>
        LET attributes == call_in.state.attributes
        IN  /\ Out = RefAddress(attributes)
            /\ ~ IsNone(Out) => resolution_method = Some("address_attribute")
            /\ (IsNone(Out) /\ ~ IsNone(attributes.latitude)) =>
                   resolution_method = Some("gps")
            /\ (IsNone(Out) /\ IsNone(attributes.latitude)) => IsNone(resolution_method)

\* the street attribute is blank, formatted_address is not a string, and the
\* padded address attribute was taken, trimmed
C26_Witness ==
    /\ Called("_async_resolve_from_state")
    /\ call_in.state.attributes.street = Some(StrVal(<<" ">>))
    /\ call_in.state.attributes.formatted_address = Some(OtherVal)
    /\ call_in.state.attributes.address = Some(StrVal(<<" ">> \o S_abc \o <<" ">>))
    /\ Out = Some(S_abc)
    /\ resolution_method = Some("address_attribute")

(***************************************************************************)
(* C27: an available update without a location                             *)
(***************************************************************************)
\* C27: an available update that carries neither a usable address attribute
\* nor both latitude and longitude only sets the source-availability flag:
\* id, name, side, timestamp, method and debounce coordinate keep their
\* values and no change notification is made, so a street resolved before
\* remains reported.
C27_NoLocationOnlySetsFlag ==
    [][(/\ Handling
        /\ AvailableUpdate(handled')
        /\ ~ HasAddress(handled')
        /\ ~ HasCoordinates(handled'))
       => /\ source_available'
          /\ notifs' = <<>>
          /\ UNCHANGED <<current_cote_rue_id, current_street_name, current_street_side,
                         last_resolution, resolution_method, last_latitude,
                         last_longitude>>]_vars

\* an update with a latitude only was handled after a street was resolved:
\* the street is still there, with the older timestamp
C27_Witness ==
    /\ handled = Update(StateOf("home", LatitudeOnly))
    /\ source_available
    /\ current_cote_rue_id = Some(5)
    /\ ~ IsNone(last_resolution) /\ Val(last_resolution) < clock

(***************************************************************************)
(* C28: what holds in every state of a resolver                            *)
(***************************************************************************)
\* C28: in every reachable state the display name is absent exactly when the
\* resolved id is absent; the side is present only when an id is resolved
\* and the method is gps; the method is absent exactly when the timestamp is
\* absent; and the debounce coordinate is absent or inside the bounding box.
C28_ResolverStateInvariants ==
    /\ IsNone(current_street_name) <=> IsNone(current_cote_rue_id)
    /\ ~ IsNone(current_street_side) =>
           (~ IsNone(current_cote_rue_id) /\ resolution_method = Some("gps"))
    /\ IsNone(resolution_method) <=> IsNone(last_resolution)
    /\ IsNone(last_latitude) <=> IsNone(last_longitude)
    /\ HasAnchor =>
           /\ 4540000 <= Val(last_latitude) /\ Val(last_latitude) <= 4570000
           /\ -7398000 <= Val(last_longitude) /\ Val(last_longitude) <= -7347000

\* a street resolved from an address while another one was resolved and a
\* debounce coordinate recorded: no side, the debounce coordinate is kept
C28_Witness ==
    /\ ~ IsNone(current_cote_rue_id)
    /\ ~ IsNone(current_street_name)
    /\ resolution_method = Some("address_attribute")
    /\ IsNone(current_street_side)
    /\ HasAnchor
    /\ notifs # <<>> /\ ~ IsNone(notifs[1][1])

(***************************************************************************)
(* C29: the precedence the vehicle entities apply                          *)
(***************************************************************************)
HasRecord ==
    ~ IsNone(current_cote_rue_id) /\ Val(current_cote_rue_id) \in DOMAIN stored_street_data

Precedence ==
    IF ~ source_available
    THEN native_value = STATE_SOURCE_UNAVAILABLE /\ is_on = Returns(None)
    ELSE IF IsNone(current_cote_rue_id)
    THEN native_value = STATE_OUTSIDE_COVERAGE /\ is_on = Returns(None)
    ELSE IF ~ HasRecord
    THEN native_value = STATE_OUTSIDE_COVERAGE /\ is_on = Returns(Some(FALSE))
    ELSE native_value = stored_street_data[Val(current_cote_rue_id)].state

\* C29: an unavailable source gives source_unavailable and an unknown ban
\* sensor even though an id is retained; otherwise no resolved id gives
\* outside_coverage and an unknown ban sensor; otherwise no record for the id
\* gives outside_coverage and the ban sensor off; only otherwise is the state
\* of the street record reported.  When the source becomes available again
\* with a debounced coordinate, the retained id is reported again.
C29_VehicleEntityPrecedence ==
    /\ [] Precedence
    /\ [][(Handling /\ ~ source_available /\ Suppressed(handled'))
          => /\ source_available'
             /\ current_cote_rue_id' = current_cote_rue_id
             /\ HasRecord => native_value' = stored_street_data[Val(current_cote_rue_id)].state]_vars

\* the street 5 was resolved two events ago or more, the last event was a
\* suppressed GPS update, and the record of the street is reported
C29_Witness ==
    /\ GpsUpdate(handled) /\ InBox(handled)
    /\ nearest_calls = 0
    /\ source_available
    /\ current_cote_rue_id = Some(5)
    /\ Val(last_resolution) + 2 <= clock
    /\ native_value = STATE_EN_COURS
    /\ is_on = Returns(Some(TRUE))

(***************************************************************************)
(* SnowRemovalCoordinator: the tracked streets and the stored records      *)
(***************************************************************************)
\* tracked_cote_rue_ids after add_tracked_street
add_tracked_street(tracked_cote_rue_ids, cote_rue_id) ==
    IF cote_rue_id \notin tracked_cote_rue_ids
    THEN tracked_cote_rue_ids \cup {cote_rue_id}
    ELSE tracked_cote_rue_ids

\* _street_data.pop(cote_rue_id, None): what is left
pop(street_data, cote_rue_id) ==
    [id \in (DOMAIN street_data) \ {cote_rue_id} |-> street_data[id]]

\* mutant: the record of the street is left in place
remove_tracked_street_KeepsRecord(tracked_cote_rue_ids, street_data, cote_rue_id) ==
    IF cote_rue_id \in tracked_cote_rue_ids
    THEN [tracked_cote_rue_ids |-> tracked_cote_rue_ids \ {cote_rue_id},
          street_data |-> street_data]
    ELSE [tracked_cote_rue_ids |-> tracked_cote_rue_ids, street_data |-> street_data]

\* tracked_cote_rue_ids and _street_data after remove_tracked_street
remove_tracked_street(tracked_cote_rue_ids, street_data, cote_rue_id) ==
    IF cote_rue_id \in tracked_cote_rue_ids
    THEN [tracked_cote_rue_ids |-> tracked_cote_rue_ids \ {cote_rue_id},
          street_data |-> pop(street_data, cote_rue_id)]
    ELSE [tracked_cote_rue_ids |-> tracked_cote_rue_ids, street_data |-> street_data]

\* the streets and the planifications of the coordinator runs
CoordinatorIds == {4, 5, 9}
CoordinatorPlanifs ==
    { PlanifOf(id, c, [deb |-> None, fin |-> None], [deb |-> None, fin |-> None]) :
        id \in CoordinatorIds, c \in {1, 5, 6} }
CoordinatorResponses ==
    {<<>>} \cup { <<p>> : p \in CoordinatorPlanifs }
           \cup { <<p, q>> : p \in CoordinatorPlanifs, q \in CoordinatorPlanifs }

AddTrackedStreet ==
    /\ \E cote_rue_id \in CoordinatorIds :
           /\ tracked_ids' = add_tracked_street(tracked_ids, cote_rue_id)
           /\ call_in' = [fn |-> "add_tracked_street", cote_rue_id |-> cote_rue_id]
    /\ call_out' = NotReturned
    /\ UNCHANGED <<resolverVars, subscribed, geobaseVars, geojson, tasks, clock, handled,
                   notifs, nearest_calls, searchVars, delivered, stored_street_data>>

\* call_out is the record that was stored for the street, if any
RemoveTrackedStreet ==
    /\ \E cote_rue_id \in CoordinatorIds :
           LET after == remove_tracked_street(tracked_ids, stored_street_data, cote_rue_id)
           IN  /\ tracked_ids' = after.tracked_cote_rue_ids
               /\ stored_street_data' = after.street_data
               /\ call_in' = [fn |-> "remove_tracked_street", cote_rue_id |-> cote_rue_id]
               /\ call_out' = Result(get_street_data(stored_street_data, cote_rue_id))
    /\ UNCHANGED <<resolverVars, subscribed, geobaseVars, geojson, tasks, clock, handled,
                   notifs, nearest_calls, searchVars, delivered>>

\* a refresh: _async_update_data on what the API returns
RefreshData ==
    /\ \E planifications \in CoordinatorResponses :
           stored_street_data' = async_update_data(stored_street_data, tracked_ids,
                                                   planifications)
    /\ call_in' = [fn |-> "_async_update_data"]
    /\ call_out' = NotReturned
    /\ UNCHANGED <<resolverVars, subscribed, geobaseVars, geojson, tasks, clock, handled,
                   notifs, nearest_calls, searchVars, delivered, tracked_ids>>

\* __init__ with the configured streets
CoordinatorInit ==
    /\ current_cote_rue_id = None
    /\ current_street_name = None
    /\ current_street_side = None
    /\ last_resolution = None
    /\ resolution_method = None
    /\ source_available = FALSE
    /\ last_latitude = None
    /\ last_longitude = None
    /\ subscribed = FALSE
    /\ tasks = <<>>
    /\ clock = 0
    /\ handled = NoEvent
    /\ notifs = <<>>
    /\ nearest_calls = 0
    /\ delivered = "none"
    /\ gb_loaded = FALSE
    /\ gb_mapping = << >>
    /\ geojson = "none"
    /\ search_in = None
    /\ search_out = <<>>
    /\ call_in = NoCall
    /\ call_out = NotReturned
    /\ tracked_ids \in SUBSET CoordinatorIds
    /\ stored_street_data = << >>

CoordinatorNext ==
    \/ AddTrackedStreet
    \/ RemoveTrackedStreet
    \/ RefreshData

CoordinatorSpec == CoordinatorInit /\ [][CoordinatorNext]_vars

(***************************************************************************)
(* C30: the stored records are those of tracked streets                    *)
(***************************************************************************)
\* C30: after any sequence of add_tracked_street, remove_tracked_street and
\* refreshes, every street id that has a stored record is in the tracked
\* set.
C30_RecordsOnlyForTracked ==
    DOMAIN stored_street_data \subseteq tracked_ids

\* a street that had a record was removed from tracking, and the record of
\* another street is still stored
C30_Witness ==
    /\ call_in.fn = "remove_tracked_street"
    /\ call_out # NotReturned /\ ~ IsNone(Out)
    /\ call_in.cote_rue_id \notin tracked_ids
    /\ call_in.cote_rue_id \notin DOMAIN stored_street_data
    /\ stored_street_data # << >>

=============================================================================
